---- MODULE Spec2Model ----
(***************************************************************************)
(* A model of Cubane's block rendering pipeline: the blockstate resolver   *)
(* (ModelResolver), the model inheritance resolver and resource accessor   *)
(* (AssetLoader), the atlas packer (AtlasBuilder), the pack manager         *)
(* (ResourcePackManager) and the facade's mesh cache (Cubane).             *)
(*                                                                         *)
(* Strings that the code splits are kept in split form: a variant key is   *)
(* the sequence of its ","-separated parts, a part the sequence of its     *)
(* "="-separated tokens, an expected multipart value the sequence of its   *)
(* "|"-separated alternatives.  Tokens themselves contain no separator,    *)
(* which is what Cubane.parseBlockString produces for a block's property   *)
(* names and values.                                                       *)
(***************************************************************************)
EXTENDS Integers, Sequences, FiniteSets, TLC

VARIABLES
    \* ---- blockstate resolution and Cubane.getBlockMesh -------------------
    block,          \* the parsed Block: [name, properties (insertion order)]
    blockstateFile, \* content of blockstates/<name>.json in the packs
    pc,             \* position of the getBlockMesh call
    models,         \* what resolveBlockModel returned
    threw,          \* TRUE when resolveBlockModel threw
    mesh,           \* what getBlockMesh resolved with
    \* ---- AssetLoader.getModel --------------------------------------------
    modelFiles,     \* models/<path>.json of the packs, by path
    modelArg,       \* the path getModel is asked for
    modelJson,      \* the model getModel returned
    mpc,            \* position of the getModel call
    \* ---- AssetLoader.resolveTexture --------------------------------------
    textureModel,   \* the model whose textures table is consulted
    textureRef,     \* the reference to resolve
    texturePath,    \* what resolveTexture returned
    tpc,            \* position of the resolveTexture call
    \* ---- AtlasBuilder ----------------------------------------------------
    atlasSize,      \* this.atlasSize
    padding,        \* this.padding
    atlasTextures,  \* the {path, image} array given to buildNewAtlas
    packingResults, \* the result of packWithStrategy, per strategy
    atlasCanvas,    \* the drawImage calls made on the atlas canvas
    uvMap,          \* path -> UVRect, as returned
    apc,            \* position of the buildNewAtlas call
    \* ---- ResourcePackManager, AssetLoader packs and caches, mesh cache ----
    packs,            \* ResourcePackManager.packs: id -> info
    packKeys,        \* the keys of the Map packs, in insertion order
    packOrder,        \* ResourcePackManager.packOrder, lowest priority first
    autoRebuild,
    batchUpdateDepth,
    pendingRebuild,
    rebuilding,       \* TRUE while triggerRebuild awaits the atlas rebuild
    resourcePackOrder, \* AssetLoader's own packs, newest first, by content
    stringCache,      \* the caches rebuildFromPackManager clears, for one path
    blockMeshCache,   \* Cubane.blockMeshCache, for one block and biome
    stringCall,       \* a getResourceString or getResourceBlob call
    meshCall,         \* a getBlockMesh call that goes through the cache
    loadComplete,     \* the loadComplete event of the step just taken
    batchChanged,     \* TRUE when packs changed since the outermost begin
    \* ---- Cubane.getBlockMesh, concurrent calls -----------------------------
    cachedMeshes,    \* Cubane.blockMeshCache, by cache key
    callSlots,       \* the getBlockMesh calls in flight
    returnedMeshes,  \* what the calls made so far resolved with, by arguments
    computations,    \* how many meshes were built on a cache miss, by cache key
    callsMade,       \* number of getBlockMesh calls started
    storedObjects,   \* which object each entry of blockMeshCache is
    lastReturn,      \* the getBlockMesh call that resolved last
    \* ---- BlockMeshBuilder.createBlockMesh ----------------------------------
    builderModel,    \* the BlockModel given to createBlockMesh
    builderBlock,    \* its block argument, NoBlock when omitted
    builderTransform, \* its transform argument: block field and rotation
    callStack,       \* the createBlockMesh calls in progress, innermost last
    waterloggedEntries, \* how often createWaterloggedBlockMesh was entered
    builderMesh,     \* what the outermost createBlockMesh resolved with
    \* ---- AssetLoader.loadAndMergeModel, hop by hop -------------------------
    mergeFiles,      \* models/<path>.json of the packs, for loadAndMergeModel
    mergeModel,      \* the parsed model given to loadAndMergeModel
    mergeCurrent,    \* its local currentModel
    mergePath,       \* its local parentPath
    mergeDepth,      \* its local depth
    loadedParents,   \* the parent paths it asked getResourceString for
    lpc,             \* position of the loadAndMergeModel call
    mergeResult,     \* what loadAndMergeModel resolved with
    \* ---- Cubane.getBlockMesh: the static parts -----------------------------
    staticEntries,   \* the entries resolveBlockModel returned to getBlockMesh
    partsBlock,      \* the block getBlockMesh parsed
    objectPromises,  \* per entry: pending, the part it resolved with, or null
    settled,         \* the entry indices in the order their builds completed
    rootChildren,    \* rootGroup.children
    partsPc,         \* idle, building or done
    \* ---- ResourcePackManager.saveState and loadState -----------------------
    savedState,      \* the packState record and the packBlobs of the IndexedDB
    loadStateCalls,  \* per loadState call in flight: its position
    loadStatesMade,  \* the number of loadState calls made
    \* ---- ResourcePackManager.triggerRebuild, one call at a time per slot ---
    rebuildCalls     \* per pack operation in flight: its events, its atlas rebuild, its result

resolveVars == <<block, blockstateFile, pc, models, threw, mesh>>
modelVars == <<modelFiles, modelArg, modelJson, mpc>>
textureVars == <<textureModel, textureRef, texturePath, tpc>>

atlasVars ==
    <<atlasSize, padding, atlasTextures, packingResults, atlasCanvas, uvMap,
      apc>>

packVars ==
    <<packs, packKeys, packOrder, autoRebuild, batchUpdateDepth, pendingRebuild,
      rebuilding, resourcePackOrder, stringCache, blockMeshCache, stringCall,
      meshCall, loadComplete, batchChanged>>

cacheVars ==
    <<cachedMeshes, callSlots, returnedMeshes, computations, callsMade,
      storedObjects, lastReturn>>

builderVars == <<builderModel, builderBlock, builderTransform, callStack, waterloggedEntries, builderMesh>>

mergeVars ==
    <<mergeFiles, mergeModel, mergeCurrent, mergePath, mergeDepth,
      loadedParents, lpc, mergeResult>>

partsVars ==
    <<staticEntries, partsBlock, objectPromises, settled, rootChildren, partsPc>>

storeVars ==
    <<savedState, loadStateCalls, loadStatesMade>>

rebuildVars ==
    <<rebuildCalls>>

vars == <<resolveVars, modelVars, textureVars, atlasVars, packVars, cacheVars, builderVars, mergeVars, partsVars, storeVars, rebuildVars>>

\* what the steps of one component leave alone
notResolveVars == <<modelVars, textureVars, atlasVars, packVars, cacheVars, builderVars, mergeVars, partsVars, storeVars, rebuildVars>>
notModelVars == <<resolveVars, textureVars, atlasVars, packVars, cacheVars, builderVars, mergeVars, partsVars, storeVars, rebuildVars>>
notTextureVars == <<resolveVars, modelVars, atlasVars, packVars, cacheVars, builderVars, mergeVars, partsVars, storeVars, rebuildVars>>
notAtlasVars == <<resolveVars, modelVars, textureVars, packVars, cacheVars, builderVars, mergeVars, partsVars, storeVars, rebuildVars>>
notPackVars == <<resolveVars, modelVars, textureVars, atlasVars, cacheVars, builderVars, mergeVars, partsVars, storeVars, rebuildVars>>
notBuilderVars ==
    <<resolveVars, modelVars, textureVars, atlasVars, packVars, cacheVars, mergeVars, partsVars, storeVars, rebuildVars>>
notCacheVars ==
    <<resolveVars, modelVars, textureVars, atlasVars, packVars, builderVars, mergeVars, partsVars, storeVars, rebuildVars>>
notMergeVars ==
    <<resolveVars, modelVars, textureVars, atlasVars, packVars, cacheVars, builderVars, partsVars, storeVars, rebuildVars>>
notPartsVars ==
    <<resolveVars, modelVars, textureVars, atlasVars, packVars, cacheVars, builderVars, mergeVars, storeVars, rebuildVars>>
notStoreVars ==
    <<resolveVars, modelVars, textureVars, atlasVars, packVars, cacheVars, builderVars, mergeVars, partsVars, rebuildVars>>
notRebuildVars ==
    <<resolveVars, modelVars, textureVars, atlasVars, packVars, cacheVars, builderVars, mergeVars, partsVars, storeVars>>

----------------------------------------------------------------------------
(* Generic helpers *)

Range(s) == {s[i] : i \in 1..Len(s)}

\* all sequences without repetition over S of length lo..hi
InjSeqs(S, lo, hi) ==
    UNION {{s \in [1..n -> S] : \A i, j \in 1..n : i # j => s[i] # s[j]} : n \in lo..hi}

\* the JavaScript value `undefined`
Undefined == "<undefined>"

\* Position of a token in the code-unit order of the strings the model uses.
Rank(tok) ==
    CASE tok = "axis" -> 1 [] tok = "bottom" -> 2 [] tok = "east" -> 3
      [] tok = "facing" -> 4 [] tok = "half" -> 5 [] tok = "north" -> 6
      [] tok = "south" -> 7 [] tok = "top" -> 8 [] tok = "x" -> 9
      [] OTHER -> 10

\* "n1=v1" < "n2=v2" as strings (no token is a prefix of another one)
PairLess(p, q) ==
    \/ Rank(p[1]) < Rank(q[1])
    \/ Rank(p[1]) = Rank(q[1]) /\ Rank(p[2]) < Rank(q[2])

\* Array.prototype.sort() on the `name=value` strings: insertion into place
RECURSIVE InsertSorted(_, _)
InsertSorted(s, p) ==
    IF s = <<>> THEN <<p>>
    ELSE IF PairLess(p, Head(s)) THEN <<p>> \o s
    ELSE <<Head(s)>> \o InsertSorted(Tail(s), p)

RECURSIVE SortPairs(_)
SortPairs(s) ==
    IF s = <<>> THEN <<>> ELSE InsertSorted(SortPairs(Tail(s)), Head(s))

RECURSIVE FilterSeq(_, _)
FilterSeq(s, S) ==
    IF s = <<>> THEN <<>>
    ELSE IF Head(s)[1] \in S THEN <<Head(s)>> \o FilterSeq(Tail(s), S)
    ELSE FilterSeq(Tail(s), S)

----------------------------------------------------------------------------
(* ModelResolver *)

LiquidNames == {"water", "flowing_water", "lava", "flowing_lava"}

\* createModelData: copies model, x, y, uvlock of a model holder
createModelData(modelHolder) ==
    [model |-> modelHolder.model, x |-> modelHolder.x,
     y |-> modelHolder.y, uvlock |-> modelHolder.uvlock]

\* variants[key]: index of the entry with that key, 0 when there is none
variantIndex(variants, key) ==
    IF \E i \in 1..Len(variants) : variants[i].key = key
    THEN CHOOSE i \in 1..Len(variants) : variants[i].key = key
    ELSE 0

\* the property names that occur in the variant keys ("" is skipped)
validVariantProperties(variants) ==
    {part[1] : part \in UNION {Range(variants[i].key) :
                    i \in {k \in 1..Len(variants) : variants[k].key # <<>>}}}

\* buildVariantKey with the sort() forgotten
buildVariantKey_unsorted(variants, properties) ==
    IF Len(properties) > 0
    THEN FilterSeq(properties, validVariantProperties(variants))
    ELSE <<>>

\* filteredProps.sort().join(","): "" for a block without properties
buildVariantKey(variants, properties) ==
    IF Len(properties) > 0
    THEN SortPairs(FilterSeq(properties, validVariantProperties(variants)))
    ELSE <<>>

\* variantProps.find(p => p.name === propName): 0 when there is none
RECURSIVE findProp(_, _, _)
findProp(key, propName, j) ==
    IF j > Len(key) THEN 0
    ELSE IF key[j][1] = propName THEN j
    ELSE findProp(key, propName, j + 1)

\* `value` of the destructured [name, value] = prop.split("=")
partValue(part) == IF Len(part) >= 2 THEN part[2] ELSE Undefined

\* the inner loop over targetProps: matchCount and allMatch for one key
RECURSIVE countMatches(_, _, _, _)
countMatches(key, properties, j, matchCount) ==
    IF j > Len(properties) THEN [allMatch |-> TRUE, matchCount |-> matchCount]
    ELSE LET m == findProp(key, properties[j][1], 1) IN
         IF m # 0 /\ partValue(key[m]) = properties[j][2]
         THEN countMatches(key, properties, j + 1, matchCount + 1)
         ELSE IF m # 0
         THEN [allMatch |-> FALSE, matchCount |-> matchCount]
         ELSE countMatches(key, properties, j + 1, matchCount)

\* the outer loop of the third approach keeping the last key on a tie
RECURSIVE bestVariantKey_lastOnTie(_, _, _, _, _)
bestVariantKey_lastOnTie(variants, properties, i, best, bestMatchCount) ==
    IF i > Len(variants) THEN best
    ELSE IF variants[i].key = <<>>
    THEN bestVariantKey_lastOnTie(variants, properties, i + 1, best, bestMatchCount)
    ELSE LET r == countMatches(variants[i].key, properties, 1, 0) IN
         IF r.allMatch /\ r.matchCount >= bestMatchCount
         THEN bestVariantKey_lastOnTie(variants, properties, i + 1, i, r.matchCount)
         ELSE bestVariantKey_lastOnTie(variants, properties, i + 1, best, bestMatchCount)

\* the outer loop of the third approach: index of bestVariantKey, 0 for ""
RECURSIVE bestVariantKey(_, _, _, _, _)
bestVariantKey(variants, properties, i, best, bestMatchCount) ==
    IF i > Len(variants) THEN best
    ELSE IF variants[i].key = <<>>
    THEN bestVariantKey(variants, properties, i + 1, best, bestMatchCount)
    ELSE LET r == countMatches(variants[i].key, properties, 1, 0) IN
         IF r.allMatch /\ r.matchCount > bestMatchCount
         THEN bestVariantKey(variants, properties, i + 1, i, r.matchCount)
         ELSE bestVariantKey(variants, properties, i + 1, best, bestMatchCount)

\* fourth approach: the first property whose "key=value" is a variant key
RECURSIVE singlePropVariant(_, _, _)
singlePropVariant(variants, properties, j) ==
    IF j > Len(properties) THEN 0
    ELSE IF variantIndex(variants, <<properties[j]>>) # 0
    THEN variantIndex(variants, <<properties[j]>>)
    ELSE singlePropVariant(variants, properties, j + 1)

\* third and fourth approach only, without the first-key last resort
fallbackVariant_noLastResort(variants, properties) ==
    LET best == bestVariantKey(variants, properties, 1, 0, -1)
        single == IF best = 0 /\ Len(properties) > 0
                  THEN singlePropVariant(variants, properties, 1) ELSE 0
    IN  IF best # 0 THEN best ELSE single

\* third to fifth approach, in the code's order
fallbackVariant(variants, properties) ==
    LET best == bestVariantKey(variants, properties, 1, 0, -1)
        single == IF best = 0 /\ Len(properties) > 0
                  THEN singlePropVariant(variants, properties, 1) ELSE 0
    IN  IF best # 0 THEN best
        ELSE IF single # 0 THEN single
        ELSE IF Len(variants) > 0 THEN 1
        ELSE 0

\* selectVariant that tries the best partial match before the "" key
selectVariant_partialFirst(variants, properties) ==
    LET variantKey == buildVariantKey(variants, properties) IN
    IF variantIndex(variants, variantKey) # 0
    THEN variantIndex(variants, variantKey)
    ELSE fallbackVariant(variants, properties)

\* the index of the variant the code selects, 0 when none is found
selectVariant(variants, properties) ==
    LET variantKey == buildVariantKey(variants, properties) IN
    IF variantIndex(variants, variantKey) # 0
    THEN variantIndex(variants, variantKey)
    ELSE IF variantIndex(variants, <<>>) # 0
    THEN variantIndex(variants, <<>>)
    ELSE fallbackVariant(variants, properties)

\* "Add the variant model(s) if found": element 0 of a list
variantModels(variants, properties) ==
    LET v == selectVariant(variants, properties) IN
    IF v = 0 THEN <<>>
    ELSE IF variants[v].isArray
    THEN <<createModelData(variants[v].value[1])>>
    ELSE <<createModelData(variants[v].value)>>

\* block.properties[property]
propertyOf(properties, property) ==
    LET m == findProp(properties, property, 1) IN
    IF m = 0 THEN Undefined ELSE properties[m][2]

\* matchesCondition that skips a property the block does not define
RECURSIVE matchesCondition_skipUndefined(_, _, _)
matchesCondition_skipUndefined(properties, condition, j) ==
    IF j > Len(condition) THEN TRUE
    ELSE LET blockValue == propertyOf(properties, condition[j].property)
             values == condition[j].value
         IN  IF blockValue = Undefined
             THEN matchesCondition_skipUndefined(properties, condition, j + 1)
             ELSE IF blockValue \notin Range(values) THEN FALSE
             ELSE matchesCondition_skipUndefined(properties, condition, j + 1)

\* matchesCondition: entries of the condition map, in Object.entries order;
\* an expected value is the sequence of its "|"-separated alternatives
RECURSIVE matchesCondition(_, _, _)
matchesCondition(properties, condition, j) ==
    IF j > Len(condition) THEN TRUE
    ELSE LET blockValue == propertyOf(properties, condition[j].property)
             values == condition[j].value
         IN  IF blockValue = Undefined THEN FALSE
             ELSE IF Len(values) > 1
             THEN IF blockValue \notin Range(values) THEN FALSE
                  ELSE matchesCondition(properties, condition, j + 1)
             ELSE IF blockValue # values[1] THEN FALSE
             ELSE matchesCondition(properties, condition, j + 1)

\* the `applies` flag of one multipart rule
applies(properties, part) ==
    IF part.when.kind = "none" THEN TRUE
    ELSE IF part.when.kind = "OR"
    THEN \E c \in 1..Len(part.when.OR) :
            matchesCondition(properties, part.when.OR[c], 1)
    ELSE matchesCondition(properties, part.when.map, 1)

RECURSIVE multipartModels(_, _, _)
multipartModels(properties, multipart, i) ==
    IF i > Len(multipart) THEN <<>>
    ELSE IF applies(properties, multipart[i])
    THEN <<createModelData(IF multipart[i].isArray THEN multipart[i].apply[1]
                           ELSE multipart[i].apply)>>
         \o multipartModels(properties, multipart, i + 1)
    ELSE multipartModels(properties, multipart, i + 1)

\* the decimal strings a `level` property can hold, "0" first
LevelTokens ==
    <<"0", "1", "2", "3", "4", "5", "6", "7", "8", "9", "10", "11", "12",
      "13", "14", "15">>

\* parseInt(levelStr, 10)
parseInt(tok) == (CHOOSE i \in 1..Len(LevelTokens) : LevelTokens[i] = tok) - 1

\* `block/water_level_${level}` and `block/lava_level_${level}`
WaterLevelPaths ==
    <<"block/water_level_1", "block/water_level_2", "block/water_level_3",
      "block/water_level_4", "block/water_level_5", "block/water_level_6",
      "block/water_level_7", "block/water_level_8", "block/water_level_9",
      "block/water_level_10", "block/water_level_11", "block/water_level_12",
      "block/water_level_13", "block/water_level_14", "block/water_level_15">>

LavaLevelPaths ==
    <<"block/lava_level_1", "block/lava_level_2", "block/lava_level_3",
      "block/lava_level_4", "block/lava_level_5", "block/lava_level_6",
      "block/lava_level_7", "block/lava_level_8", "block/lava_level_9",
      "block/lava_level_10", "block/lava_level_11", "block/lava_level_12",
      "block/lava_level_13", "block/lava_level_14", "block/lava_level_15">>

\* createLiquidModelData: one synthetic entry built from the level property
createLiquidModelData(blk) ==
    LET isWater == blk.name \in {"water", "flowing_water"}
        levelStr == propertyOf(blk.properties, "level")
        level == IF levelStr # Undefined THEN parseInt(levelStr) ELSE 0
        modelPath == IF isWater
                     THEN (IF level = 0 THEN "block/water"
                           ELSE WaterLevelPaths[level])
                     ELSE (IF level = 0 THEN "block/lava"
                           ELSE LavaLevelPaths[level])
    IN  <<[model |-> modelPath, x |-> 0, y |-> 0, uvlock |-> FALSE]>>

\* AssetLoader.getBlockState: the parsed document, {} when the file is
\* missing or is not JSON
EmptyDefinition ==
    [isNull |-> FALSE, hasVariants |-> FALSE, variants |-> <<>>,
     hasMultipart |-> FALSE, multipartIterable |-> TRUE, multipart |-> <<>>]

getBlockState(file) ==
    IF file.status \in {"missing", "unparsable"} THEN EmptyDefinition
    ELSE file.doc

\* resolveBlockModel without the branch for liquids
resolveBlockModel_noLiquids(blk, file) ==
    LET d == getBlockState(file) IN
    IF d.isNull \/ (~d.hasVariants /\ ~d.hasMultipart)
    THEN [threw |-> FALSE, models |-> <<>>]
    ELSE IF d.hasMultipart /\ ~d.multipartIterable
    THEN [threw |-> TRUE, models |-> <<>>]
    ELSE [threw |-> FALSE,
          models |->
             (IF d.hasVariants THEN variantModels(d.variants, blk.properties)
              ELSE <<>>)
             \o (IF d.hasMultipart
                 THEN multipartModels(blk.properties, d.multipart, 1)
                 ELSE <<>>)]

\* resolveBlockModel: [threw, models]
resolveBlockModel(blk, file) ==
    IF blk.name \in LiquidNames
    THEN [threw |-> FALSE, models |-> createLiquidModelData(blk)]
    ELSE LET d == getBlockState(file) IN
         IF d.isNull \/ (~d.hasVariants /\ ~d.hasMultipart)
         THEN [threw |-> FALSE, models |-> <<>>]
         ELSE IF d.hasMultipart /\ ~d.multipartIterable
         THEN [threw |-> TRUE, models |-> <<>>]
         ELSE [threw |-> FALSE,
               models |->
                  (IF d.hasVariants THEN variantModels(d.variants, blk.properties)
                   ELSE <<>>)
                  \o (IF d.hasMultipart
                      THEN multipartModels(blk.properties, d.multipart, 1)
                      ELSE <<>>)]

----------------------------------------------------------------------------
(* Cubane.getBlockMesh, the part that does not touch the mesh cache *)

PureBlockEntities == {"chest"}      \* pureBlockEntityMap
HybridBlocks == {"lectern"}         \* hybridBlockConfig

\* assembleMesh that returns the empty root group instead of the fallback
assembleMesh_noFallback(blk, parts) ==
    [kind |-> "group", parts |-> parts,
     dynamic |-> IF blk.name \in HybridBlocks THEN 1 ELSE 0]

\* lines 1185-1208: the fallback placeholder when the root group is empty
assembleMesh(blk, parts) ==
    LET dynamic == IF blk.name \in HybridBlocks THEN 1 ELSE 0 IN
    IF Len(parts) + dynamic = 0
    THEN [kind |-> "fallback", parts |-> <<>>, dynamic |-> 0]
    ELSE [kind |-> "group", parts |-> parts, dynamic |-> dynamic]

\* the parts that were built, in the order of the model list
RECURSIVE staticParts(_, _, _)
staticParts(modelDataList, fails, i) ==
    IF i > Len(modelDataList) THEN <<>>
    ELSE IF fails[i] THEN staticParts(modelDataList, fails, i + 1)
    ELSE <<modelDataList[i]>> \o staticParts(modelDataList, fails, i + 1)

NoMesh == [kind |-> "none", parts |-> <<>>, dynamic |-> 0]

\* a pure block entity: the entity mesh is the block mesh
GetBlockMeshEntity ==
    /\ pc = "start"
    /\ block.name \in PureBlockEntities
    /\ mesh' = [kind |-> "entity", parts |-> <<>>, dynamic |-> 0]
    /\ pc' = "done"
    /\ UNCHANGED <<block, blockstateFile, models, threw, notResolveVars>>

\* await this.modelResolver.resolveBlockModel(block), inside the try
GetBlockMeshResolve ==
    /\ pc = "start"
    /\ block.name \notin PureBlockEntities
    /\ LET r == resolveBlockModel(block, blockstateFile) IN
          /\ models' = r.models
          /\ threw' = r.threw
    /\ pc' = "resolved"
    /\ UNCHANGED <<block, blockstateFile, mesh, notResolveVars>>

\* the parts are built (a part whose build throws is dropped), the dynamic
\* part of a hybrid block is added, an empty root becomes the fallback
GetBlockMeshAssemble ==
    /\ pc = "resolved"
    /\ \E fails \in [1..Len(models) -> BOOLEAN] :
          mesh' = assembleMesh(block, staticParts(models, fails, 1))
    /\ pc' = "done"
    /\ UNCHANGED <<block, blockstateFile, models, threw, notResolveVars>>

----------------------------------------------------------------------------
(* The inputs of the resolver *)

MaxProps == 2
MaxVariants == 3
MaxRules == 2

\* model holders, by position in the document
ModelPaths ==
    <<"block/a", "block/b", "block/c", "block/d", "block/e", "block/f",
      "block/g", "block/h">>

ModelHolder(i) ==
    [model |-> ModelPaths[i], x |-> 90 * (i % 4), y |-> 90 * ((i + 1) % 4),
     uvlock |-> (i % 2 = 0)]

\* the properties a block can carry, and the values it can give them
BlockPairs ==
    {<<"facing", "north">>, <<"facing", "south">>, <<"facing", "east">>,
     <<"half", "top">>, <<"half", "bottom">>, <<"axis", "x">>}

PropertyLists ==
    {s \in InjSeqs(BlockPairs, 0, MaxProps) :
        \A i, j \in 1..Len(s) : i # j => s[i][1] # s[j][1]}

\* variant keys: "", single pairs, sorted and unsorted combinations
KeyPool ==
    {<<>>,
     <<<<"facing", "north">>>>, <<<<"facing", "south">>>>,
     <<<<"half", "top">>>>,
     <<<<"facing", "north">>, <<"half", "top">>>>,
     <<<<"facing", "south">>, <<"half", "top">>>>,
     <<<<"half", "top">>, <<"facing", "north">>>>,
     <<<<"facing", "north">>, <<"half", "bottom">>>>}

VariantLists(weighted) ==
    {[i \in 1..Len(ks) |->
        [key |-> ks[i], isArray |-> weighted,
         value |-> IF weighted THEN <<ModelHolder(i), ModelHolder(i + 1)>>
                   ELSE ModelHolder(i)]] : ks \in InjSeqs(KeyPool, 0, MaxVariants)}

Entry(property, alternatives) == [property |-> property, value |-> alternatives]

ConditionPool ==
    {<<>>,
     <<Entry("facing", <<"north">>)>>,
     <<Entry("facing", <<"north", "south">>)>>,
     <<Entry("half", <<"top">>)>>,
     <<Entry("facing", <<"east", "south">>), Entry("half", <<"top">>)>>}

WhenPool ==
    {[kind |-> "none", map |-> <<>>, OR |-> <<>>]}
    \cup {[kind |-> "map", map |-> c, OR |-> <<>>] : c \in ConditionPool}
    \cup {[kind |-> "OR", map |-> <<>>, OR |-> cs] :
            cs \in {<<>>,
                    <<<<Entry("facing", <<"north">>)>>,
                      <<Entry("half", <<"top">>)>>>>,
                    <<<<Entry("half", <<"bottom">>)>>,
                      <<Entry("facing", <<"east">>), Entry("half", <<"top">>)>>>>}}

MultipartLists(weighted) ==
    UNION {{[i \in 1..n |->
              [when |-> ws[i], isArray |-> weighted,
               apply |-> IF weighted
                         THEN <<ModelHolder(i + 4), ModelHolder(i + 5)>>
                         ELSE ModelHolder(i + 4)]] : ws \in [1..n -> WhenPool]}
           : n \in 0..MaxRules}

Definition(hasV, vs, hasM, iterable, ms) ==
    [isNull |-> FALSE, hasVariants |-> hasV, variants |-> vs,
     hasMultipart |-> hasM, multipartIterable |-> iterable, multipart |-> ms]

File(status, doc) == [status |-> status, doc |-> doc]

\* files that carry no usable definition
BareFiles ==
    {File("missing", EmptyDefinition), File("unparsable", EmptyDefinition),
     File("ok", EmptyDefinition),
     File("ok", [EmptyDefinition EXCEPT !.isNull = TRUE]),
     File("ok", Definition(FALSE, <<>>, TRUE, FALSE, <<>>))}

VariantFiles ==
    {File("ok", Definition(TRUE, vs, FALSE, TRUE, <<>>)) :
        vs \in VariantLists(FALSE) \cup VariantLists(TRUE)}

MultipartFiles ==
    {File("ok", Definition(FALSE, <<>>, TRUE, TRUE, ms)) :
        ms \in MultipartLists(FALSE) \cup MultipartLists(TRUE)}

\* a definition with both sections
MixedFiles ==
    {File("ok", Definition(TRUE, vs, TRUE, TRUE, ms)) :
        vs \in {v \in VariantLists(FALSE) : Len(v) = 1},
        ms \in {m \in MultipartLists(FALSE) : Len(m) = 1}}

Block(name, properties) == [name |-> name, properties |-> properties]

\* the inputs of one getBlockMesh call
StartResolve ==
    /\ \/ /\ block \in {Block("stone", ps) : ps \in PropertyLists}
          /\ blockstateFile \in
                BareFiles \cup VariantFiles \cup MultipartFiles \cup MixedFiles
       \/ /\ block \in {Block(n, ps) :
                n \in LiquidNames \cup {"chest", "lectern"},
                ps \in {<<>>, <<<<"level", "0">>>>, <<<<"level", "3">>>>,
                        <<<<"level", "15">>>>, <<<<"facing", "north">>>>}}
          /\ blockstateFile \in BareFiles \cup
                {File("ok", Definition(TRUE, vs, FALSE, TRUE, <<>>)) :
                    vs \in {v \in VariantLists(FALSE) : Len(v) = 1}}
    /\ pc = "start"
    /\ models = <<>>
    /\ threw = FALSE
    /\ mesh = NoMesh

NextResolve ==
    \/ GetBlockMeshEntity
    \/ GetBlockMeshResolve
    \/ GetBlockMeshAssemble


----------------------------------------------------------------------------
(* AssetLoader: getModel, loadAndMergeModel *)

TextureKeys ==
    {"particle", "all", "top", "bottom", "north", "south", "east", "west",
     "side", "still"}

Directions == {"down", "up", "north", "south", "west", "east"}

\* a texture value or a path: a literal (possibly with the "minecraft:"
\* prefix), a "#key" reference, the empty string, or no value at all
Lit(name) == [kind |-> "lit", ns |-> FALSE, name |-> name]
NsLit(name) == [kind |-> "lit", ns |-> TRUE, name |-> name]
Ref(key) == [kind |-> "ref", ns |-> FALSE, name |-> key]
EmptyString == [kind |-> "empty", ns |-> FALSE, name |-> ""]
Absent == [kind |-> "absent", ns |-> FALSE, name |-> ""]

\* str.replace("minecraft:", "")
stripNamespace(v) == [v EXCEPT !.ns = FALSE]

NoTextures == [k \in TextureKeys |-> Absent]
NoFaces == [d \in Directions |-> Absent]

\* {} as BlockModel
EmptyModel ==
    [hasParent |-> FALSE, parent |-> Absent,
     hasTextures |-> FALSE, textures |-> NoTextures,
     hasElements |-> FALSE, elements |-> <<>>]

MissingFile == [status |-> "missing", doc |-> EmptyModel]

\* getResourceString(`models/${path}.json`) followed by JSON.parse
modelFile(files, path) ==
    IF path \in DOMAIN files THEN files[path] ELSE MissingFile

MAX_DEPTH == 5

\* mergeParent with the spreads in the wrong order: the parent overrides
mergeParent_parentWins(currentModel, parentModel) ==
    [hasParent |-> currentModel.hasParent \/ parentModel.hasParent,
     parent |-> IF currentModel.hasParent THEN currentModel.parent
                ELSE parentModel.parent,
     hasTextures |-> TRUE,
     textures |-> [k \in TextureKeys |->
                     IF parentModel.hasTextures
                        /\ parentModel.textures[k] # Absent
                     THEN parentModel.textures[k]
                     ELSE IF currentModel.hasTextures
                     THEN currentModel.textures[k] ELSE Absent],
     hasElements |-> currentModel.hasElements \/ parentModel.hasElements,
     elements |-> IF parentModel.hasElements THEN parentModel.elements
                  ELSE currentModel.elements]

\* { ...parentModel, ...currentModel, textures: {...}, elements: ... }
mergeParent(currentModel, parentModel) ==
    [hasParent |-> currentModel.hasParent \/ parentModel.hasParent,
     parent |-> IF currentModel.hasParent THEN currentModel.parent
                ELSE parentModel.parent,
     hasTextures |-> TRUE,
     textures |-> [k \in TextureKeys |->
                     IF currentModel.hasTextures
                        /\ currentModel.textures[k] # Absent
                     THEN currentModel.textures[k]
                     ELSE IF parentModel.hasTextures
                     THEN parentModel.textures[k] ELSE Absent],
     hasElements |-> currentModel.hasElements \/ parentModel.hasElements,
     elements |-> IF currentModel.hasElements THEN currentModel.elements
                  ELSE parentModel.elements]

\* the while loop of loadAndMergeModel; a parent is followed when it is a
\* non-empty string
RECURSIVE mergeLoop(_, _, _, _)
mergeLoop(files, currentModel, parentPath, depth) ==
    IF parentPath.kind # "lit" \/ depth >= MAX_DEPTH THEN currentModel
    ELSE LET file == modelFile(files, stripNamespace(parentPath).name) IN
         IF file.status # "ok" THEN currentModel
         ELSE mergeLoop(files, mergeParent(currentModel, file.doc),
                        IF file.doc.parent.kind = "lit" THEN file.doc.parent
                        ELSE EmptyString,
                        depth + 1)

\* loadAndMergeModel without the final `delete currentModel.parent`
loadAndMergeModel_keepParent(files, model) ==
    IF model.parent.kind # "lit" THEN model
    ELSE mergeLoop(files, model, model.parent, 0)

\* loadAndMergeModel: merge, then delete currentModel.parent
loadAndMergeModel(files, model) ==
    IF model.parent.kind # "lit" THEN model
    ELSE [mergeLoop(files, model, model.parent, 0)
            EXCEPT !.hasParent = FALSE, !.parent = Absent]

\* the synthetic cuboid [0,0,0]-[16,actualHeight,16]
liquidElement(actualHeight) ==
    [from |-> <<0, 0, 0>>, to |-> <<16, actualHeight, 16>>,
     faces |-> [d \in Directions |->
                 CASE d = "down" -> Ref("bottom") [] d = "up" -> Ref("top")
                   [] OTHER -> Ref(d)]]

\* modelPath.startsWith("block/water"), modelPath.startsWith("block/lava")
startsWithWater(path) ==
    path \in {"block/water", "block/water_cauldron"} \cup Range(WaterLevelPaths)

startsWithLava(path) ==
    path \in {"block/lava", "block/lava_cauldron"} \cup Range(LavaLevelPaths)

\* modelPath.match(/_level_(\d+)/) and parseInt of its group; 0 for no match
levelMatch(path) == path \in Range(WaterLevelPaths) \cup Range(LavaLevelPaths)

levelOf(path) ==
    IF path \in Range(WaterLevelPaths)
    THEN CHOOSE n \in 1..Len(WaterLevelPaths) : WaterLevelPaths[n] = path
    ELSE IF path \in Range(LavaLevelPaths)
    THEN CHOOSE n \in 1..Len(LavaLevelPaths) : LavaLevelPaths[n] = path
    ELSE 0

\* the liquid branch of getModel
liquidModel(files, path) ==
    LET isWater == startsWithWater(path)
        level == levelOf(path)
        liquidHeight == IF level = 0 THEN 16 ELSE 16 - level * 2
        actualHeight == IF isWater /\ level = 0 THEN 14 ELSE liquidHeight
        still == Lit(IF isWater THEN "block/water_still" ELSE "block/lava_still")
        flow == Lit(IF isWater THEN "block/water_flow" ELSE "block/lava_flow")
        synthetic == [k \in TextureKeys |->
                        IF k \in {"particle", "all", "top", "bottom"} THEN still
                        ELSE IF k \in {"north", "south", "east", "west"} THEN flow
                        ELSE Absent]
        exact == modelFile(files, path)
        base == modelFile(files, IF isWater THEN "block/water" ELSE "block/lava")
        file == IF exact.status = "missing" /\ levelMatch(path) THEN base
                ELSE exact
        found == file.status = "ok"
        originalModel == file.doc
    IN  [hasParent |-> FALSE, parent |-> Absent,
         hasTextures |-> TRUE,
         textures |-> [k \in TextureKeys |->
                         IF found /\ originalModel.hasTextures
                            /\ originalModel.textures[k] # Absent
                         THEN originalModel.textures[k] ELSE synthetic[k]],
         hasElements |-> TRUE,
         elements |-> IF found /\ originalModel.hasElements /\ ~levelMatch(path)
                      THEN originalModel.elements
                      ELSE <<liquidElement(actualHeight)>>]

\* getModel on a cache miss, for a path given with or without "minecraft:"
getModel(files, path) ==
    LET name == stripNamespace(path).name IN
    IF startsWithWater(name) \/ startsWithLava(name)
    THEN liquidModel(files, name)
    ELSE LET file == modelFile(files, name) IN
         IF file.status # "ok" THEN EmptyModel
         ELSE IF file.doc.parent.kind = "lit"
         THEN loadAndMergeModel(files, file.doc)
         ELSE file.doc

\* const modelJson = await this.assetLoader.getModel(modelData.model)
GetModel ==
    /\ mpc = "start"
    /\ modelJson' = getModel(modelFiles, modelArg)
    /\ mpc' = "done"
    /\ UNCHANGED <<modelFiles, modelArg, notModelVars>>

----------------------------------------------------------------------------
(* The inputs of getModel: a model file and its chain of parents *)

MaxAncestors == 5

AncestorPaths ==
    <<"block/p1", "block/p2", "block/p3", "block/p4", "block/p5", "block/p6",
      "block/p7", "block/p8">>

TexturePaths ==
    <<"block/t0", "block/t1", "block/t2", "block/t3", "block/t4", "block/t5",
      "block/t6", "block/t7", "block/t8">>

\* the element a model at position i of a chain declares
ElementOf(i) ==
    [from |-> <<0, 0, 0>>, to |-> <<16, i + 1, 16>>,
     faces |-> [NoFaces EXCEPT !["up"] = Ref("top"), !["north"] = Ref("side")]]

\* what a model file at position i of a chain can contain, parent aside
DocShape(i, shape) ==
    CASE shape = 1 -> EmptyModel
      [] shape = 2 ->
           [EmptyModel EXCEPT !.hasTextures = TRUE,
              !.textures = [NoTextures EXCEPT
                              !["top"] = Lit(TexturePaths[i + 1])]]
      [] shape = 3 ->
           [EmptyModel EXCEPT !.hasTextures = TRUE,
              !.textures = [NoTextures EXCEPT
                              !["side"] = Lit(TexturePaths[i + 1]),
                              !["top"] = Ref("side")],
              !.hasElements = TRUE, !.elements = <<ElementOf(i)>>]
      [] shape = 4 ->
           [EmptyModel EXCEPT !.hasTextures = TRUE,
              !.textures = [NoTextures EXCEPT
                              !["top"] = NsLit(TexturePaths[i + 1]),
                              !["side"] = Lit(TexturePaths[i + 1])],
              !.hasElements = TRUE, !.elements = <<>>]

Shapes == 1..4

HeadPaths ==
    {"block/m0", "block/lava_cauldron", "block/water", "block/water_level_3",
     "block/lava", "block/water_level_7", "block/water_level_8",
     "block/lava_level_15"}

TailKinds == {"none", "empty", "missing", "broken", "cycle", "self"}

\* where the file of the chain's head is stored
HeadFile(head) ==
    IF head \in Range(WaterLevelPaths) THEN "block/water"
    ELSE IF head \in Range(LavaLevelPaths) THEN "block/lava"
    ELSE head

ChainPath(head, i) == IF i = 0 THEN HeadFile(head) ELSE AncestorPaths[i]

PathValue(ns, name) == IF ns THEN NsLit(name) ELSE Lit(name)

\* the parent reference of the model at position i of a chain of length len
ParentOf(head, len, tail, ns, i) ==
    IF i < len THEN PathValue(ns, ChainPath(head, i + 1))
    ELSE CASE tail = "none" -> Absent
           [] tail = "empty" -> EmptyString
           [] tail = "missing" -> PathValue(ns, "block/absent")
           [] tail = "broken" -> PathValue(ns, "block/broken")
           [] tail = "cycle" -> PathValue(ns, ChainPath(head, 0))
           [] tail = "self" -> PathValue(ns, ChainPath(head, i))

ChainFiles(head, len, tail, ns, docs) ==
    [path \in {ChainPath(head, i) : i \in 0..len} \cup {"block/broken"} |->
        IF path = "block/broken"
        THEN [status |-> "unparsable", doc |-> EmptyModel]
        ELSE LET i == CHOOSE j \in 0..len : ChainPath(head, j) = path
                 parent == ParentOf(head, len, tail, ns, i)
             IN  [status |-> "ok",
                  doc |-> [docs[i] EXCEPT !.hasParent = (parent # Absent),
                                          !.parent = parent]]]

ShapeChoices(len) == [0..len -> Shapes]

StartModel ==
    /\ \E head \in HeadPaths, len \in 0..MaxAncestors, tail \in TailKinds,
          ns \in BOOLEAN :
          /\ head # "block/m0" => len <= 1
          /\ ns => tail = "none"
          /\ \E shapes \in ShapeChoices(len) :
                modelFiles = ChainFiles(head, len, tail, ns,
                                        [i \in 0..len |-> DocShape(i, shapes[i])])
          /\ modelArg = PathValue(ns, head)
    /\ modelJson = EmptyModel
    /\ mpc = "start"

NextModel == GetModel

----------------------------------------------------------------------------
(* AssetLoader.loadAndMergeModel, one awaited parent load per step *)

\* while (parentPath && depth <= MAX_DEPTH): one hop too many
loopContinues_offByOne(path, hops) == path.kind = "lit" /\ hops <= MAX_DEPTH

\* while (parentPath && depth < MAX_DEPTH)
loopContinues(path, hops) == path.kind = "lit" /\ hops < MAX_DEPTH

\* if (!model.parent) return model; otherwise the locals are set up
LoadAndMergeModelEnter ==
    /\ lpc = "start"
    /\ IF mergeModel.parent.kind # "lit"
       THEN /\ mergeResult' = mergeModel
            /\ lpc' = "done"
            /\ UNCHANGED <<mergeCurrent, mergePath, mergeDepth>>
       ELSE /\ mergeCurrent' = mergeModel
            /\ mergePath' = mergeModel.parent
            /\ mergeDepth' = 0
            /\ lpc' = "loop"
            /\ UNCHANGED mergeResult
    /\ UNCHANGED <<mergeFiles, mergeModel, loadedParents, notMergeVars>>

\* one round of the loop: the awaited getResourceString, JSON.parse and the
\* merge; a missing or unparsable parent leaves the loop
LoadParent ==
    /\ lpc = "loop"
    /\ loopContinues(mergePath, mergeDepth)
    /\ LET name == stripNamespace(mergePath).name
           file == modelFile(mergeFiles, name)
       IN  /\ loadedParents' = Append(loadedParents, name)
           /\ IF file.status # "ok"
              THEN /\ lpc' = "exit"
                   /\ UNCHANGED <<mergeCurrent, mergePath, mergeDepth>>
              ELSE /\ mergeCurrent' = mergeParent(mergeCurrent, file.doc)
                   /\ mergePath' = (IF file.doc.parent.kind = "lit"
                                     THEN file.doc.parent ELSE EmptyString)
                   /\ mergeDepth' = mergeDepth + 1
                   /\ lpc' = "loop"
    /\ UNCHANGED <<mergeFiles, mergeModel, mergeResult, notMergeVars>>

\* delete currentModel.parent; return currentModel
LoadAndMergeModelReturn ==
    /\ \/ lpc = "exit"
       \/ lpc = "loop" /\ ~loopContinues(mergePath, mergeDepth)
    /\ mergeResult' = [mergeCurrent EXCEPT !.hasParent = FALSE, !.parent = Absent]
    /\ lpc' = "done"
    /\ UNCHANGED <<mergeFiles, mergeModel, mergeCurrent, mergePath, mergeDepth,
                   loadedParents, notMergeVars>>

NextMerge ==
    \/ LoadAndMergeModelEnter
    \/ LoadParent
    \/ LoadAndMergeModelReturn

\* the inputs of one loadAndMergeModel call: the parsed head of a chain
MergeShapes == {2, 3}

StartMerge ==
    /\ \E len \in 0..MaxAncestors, tail \in TailKinds, ns \in BOOLEAN :
          /\ ns => tail = "none"
          /\ \E shapes \in [0..len -> MergeShapes] :
                mergeFiles = ChainFiles("block/m0", len, tail, ns,
                                        [i \in 0..len |-> DocShape(i, shapes[i])])
    /\ mergeModel = modelFile(mergeFiles, "block/m0").doc
    /\ mergeCurrent = EmptyModel
    /\ mergePath = Absent
    /\ mergeDepth = 0
    /\ loadedParents = <<>>
    /\ lpc = "start"
    /\ mergeResult = EmptyModel


----------------------------------------------------------------------------
(* AssetLoader: resolveTexture *)

resolveTexture_MAX_DEPTH == 5

MissingTexture == Lit("block/missing_texture")

\* model.textures[key] || ref
lookupTexture(model, ref) ==
    LET value == IF ref.name \in DOMAIN model.textures
                 THEN model.textures[ref.name] ELSE Absent
    IN  IF value.kind \in {"absent", "empty"} THEN ref ELSE value

\* the while loop, one lookup per round; gives the last ref and the depth
RECURSIVE resolveLoop(_, _, _)
resolveLoop(model, ref, depth) ==
    IF ref.kind = "ref" /\ depth < resolveTexture_MAX_DEPTH
    THEN resolveLoop(model, lookupTexture(model, ref), depth + 1)
    ELSE [ref |-> ref, depth |-> depth]

\* resolveTexture; a model without textures leaves from the first round of
\* the loop, which a "#" reference always enters
resolveTexture(ref, model) ==
    IF ref.kind \in {"absent", "empty"} \/ ref = Ref("missing")
    THEN MissingTexture
    ELSE IF ref.kind # "ref" THEN stripNamespace(ref)
    ELSE IF ~model.hasTextures THEN MissingTexture
    ELSE LET end == resolveLoop(model, ref, 0) IN
         IF end.depth >= resolveTexture_MAX_DEPTH \/ end.ref.kind = "ref"
         THEN MissingTexture
         ELSE stripNamespace(end.ref)

\* this.assetLoader.resolveTexture(faceData.texture, model)
ResolveTexture ==
    /\ tpc = "start"
    /\ texturePath' = resolveTexture(textureRef, textureModel)
    /\ tpc' = "done"
    /\ UNCHANGED <<textureModel, textureRef, notTextureVars>>

(* The inputs of resolveTexture: a table of chained keys *)

MaxTextureKeys == 5

ChainKeys == <<"k1", "k2", "k3", "k4", "k5", "k6", "k7">>

\* what the table can hold under its i-th key
TextureValue(i, choice) ==
    CASE choice = 1 -> Absent
      [] choice = 2 -> Ref(ChainKeys[i + 1])
      [] choice = 3 -> Ref(ChainKeys[i])
      [] choice = 4 -> Ref(ChainKeys[1])
      [] choice = 5 -> IF i % 2 = 0 THEN NsLit(TexturePaths[i])
                       ELSE Lit(TexturePaths[i])

TextureTables ==
    {[k \in {ChainKeys[i] : i \in 1..MaxTextureKeys} |->
        LET i == CHOOSE j \in 1..MaxTextureKeys : ChainKeys[j] = k
        IN  TextureValue(i, choice[i])] :
     choice \in [1..MaxTextureKeys -> 1..5]}

TextureRefs ==
    {Absent, EmptyString, Ref("missing"), Ref("k1"), Ref("k2"), Ref("other"),
     Lit("block/stone"), NsLit("block/stone")}

StartTexture ==
    /\ \/ \E table \in TextureTables :
             textureModel = [EmptyModel EXCEPT !.hasTextures = TRUE,
                                               !.textures = table]
       \/ textureModel = EmptyModel
    /\ textureRef \in TextureRefs
    /\ texturePath = Absent
    /\ tpc = "start"

NextTexture == ResolveTexture

----------------------------------------------------------------------------
(* AtlasBuilder: buildNewAtlas *)

Strategies ==
    <<"largest-first", "area-first", "height-first", "width-first",
      "perimeter-first">>

Max(a, b) == IF a >= b THEN a ELSE b

\* textures.map(({path, image}) => ({path, image, width, height, area}))
textureInfo(texture) ==
    [path |-> texture.path, image |-> texture.image,
     width |-> texture.image.width, height |-> texture.image.height,
     area |-> texture.image.width * texture.image.height]

\* the comparators of sortTexturesForPacking
compare(strategy, a, b) ==
    CASE strategy = "largest-first" ->
           IF Max(b.width, b.height) # Max(a.width, a.height)
           THEN Max(b.width, b.height) - Max(a.width, a.height)
           ELSE b.area - a.area
      [] strategy = "area-first" -> b.area - a.area
      [] strategy = "height-first" ->
           IF b.height # a.height THEN b.height - a.height
           ELSE b.width - a.width
      [] strategy = "width-first" ->
           IF b.width # a.width THEN b.width - a.width
           ELSE b.height - a.height
      [] strategy = "perimeter-first" ->
           (b.width + b.height) - (a.width + a.height)

\* Array.prototype.sort is stable: x goes before the first element that the
\* comparator puts after it
insertTexture(strategy, sorted, x) ==
    LET later == {i \in 1..Len(sorted) : compare(strategy, sorted[i], x) > 0}
        at == IF later = {} THEN Len(sorted) + 1
              ELSE CHOOSE i \in later : \A j \in later : i <= j
    IN  SubSeq(sorted, 1, at - 1) \o <<x>> \o SubSeq(sorted, at, Len(sorted))

RECURSIVE sortTextures(_, _)
sortTextures(strategy, textures) ==
    IF textures = <<>> THEN <<>>
    ELSE insertTexture(strategy,
                       sortTextures(strategy,
                                    SubSeq(textures, 1, Len(textures) - 1)),
                       textures[Len(textures)])

sortTexturesForPacking(textures) ==
    [strategy \in Range(Strategies) |-> sortTextures(strategy, textures)]

\* an AtlasNode tree: nodes by their route from the root
RootNode == <<>>
NoNode == <<"null">>

\* findNode that searches the down child before the right child
RECURSIVE findNode_downFirst(_, _, _, _)
findNode_downFirst(tree, node, width, height) ==
    IF tree[node].used
    THEN LET down == findNode_downFirst(tree, Append(node, "down"), width, height)
         IN  IF down # NoNode THEN down
             ELSE findNode_downFirst(tree, Append(node, "right"), width, height)
    ELSE IF width <= tree[node].width /\ height <= tree[node].height
    THEN node
    ELSE NoNode

\* findNode: the right child is searched before the down child
RECURSIVE findNode(_, _, _, _)
findNode(tree, node, width, height) ==
    IF tree[node].used
    THEN LET right == findNode(tree, Append(node, "right"), width, height)
         IN  IF right # NoNode THEN right
             ELSE findNode(tree, Append(node, "down"), width, height)
    ELSE IF width <= tree[node].width /\ height <= tree[node].height
    THEN node
    ELSE NoNode

\* splitNode whose right child starts at the node's own x
splitNode_rightAtNode(tree, node, width, height) ==
    LET n == tree[node]
        down == [x |-> n.x, y |-> n.y + height, width |-> n.width,
                 height |-> n.height - height, used |-> FALSE]
        right == [x |-> n.x, y |-> n.y, width |-> n.width - width,
                  height |-> height, used |-> FALSE]
    IN  [m \in DOMAIN tree \cup {Append(node, "down"), Append(node, "right")} |->
            IF m = node THEN [n EXCEPT !.used = TRUE]
            ELSE IF m = Append(node, "down") THEN down
            ELSE IF m = Append(node, "right") THEN right
            ELSE tree[m]]

\* splitNode: mark the node used, hang the strip below and the strip beside
splitNode(tree, node, width, height) ==
    LET n == tree[node]
        down == [x |-> n.x, y |-> n.y + height, width |-> n.width,
                 height |-> n.height - height, used |-> FALSE]
        right == [x |-> n.x + width, y |-> n.y, width |-> n.width - width,
                  height |-> height, used |-> FALSE]
    IN  [m \in DOMAIN tree \cup {Append(node, "down"), Append(node, "right")} |->
            IF m = node THEN [n EXCEPT !.used = TRUE]
            ELSE IF m = Append(node, "down") THEN down
            ELSE IF m = Append(node, "right") THEN right
            ELSE tree[m]]

\* the for loop of packTextures
RECURSIVE packLoop(_, _, _, _, _)
packLoop(tree, textures, packed, size, pad) ==
    IF textures = <<>> THEN packed
    ELSE LET texture == Head(textures)
             node == findNode(tree, RootNode, texture.width + pad,
                              texture.height + pad)
         IN  IF node = NoNode
             THEN packLoop(tree, Tail(textures), packed, size, pad)
             ELSE packLoop(splitNode(tree, node, texture.width + pad,
                                     texture.height + pad),
                           Tail(textures),
                           Append(packed,
                                  [path |-> texture.path,
                                   image |-> texture.image,
                                   width |-> texture.width,
                                   height |-> texture.height,
                                   area |-> texture.area,
                                   x |-> tree[node].x, y |-> tree[node].y]),
                           size, pad)

\* packTextures requesting the bare width and height of each texture
packTextures_unpadded(textures, size, pad) ==
    packLoop([m \in {RootNode} |->
                [x |-> 0, y |-> 0, width |-> size, height |-> size,
                 used |-> FALSE]],
             textures, <<>>, size, 0)

packTextures(textures, size, pad) ==
    packLoop([m \in {RootNode} |->
                [x |-> 0, y |-> 0, width |-> size, height |-> size,
                 used |-> FALSE]],
             textures, <<>>, size, pad)

\* a quotient of two integers, kept exact
RECURSIVE Gcd(_, _)
Gcd(a, b) == IF b = 0 THEN a ELSE Gcd(b, a % b)

Quotient(n, d) ==
    IF n = 0 THEN [num |-> 0, den |-> 1]
    ELSE [num |-> n \div Gcd(n, d), den |-> d \div Gcd(n, d)]

QuotientGreater(a, b) == a.num * b.den > b.num * a.den

RECURSIVE SumArea(_)
SumArea(packed) ==
    IF packed = <<>> THEN 0 ELSE Head(packed).area + SumArea(Tail(packed))

\* (totalTextureArea / atlasArea) * 100
calculatePackingEfficiency(packed, size) ==
    Quotient(SumArea(packed) * 100, size * size)

packWithStrategy(sortedTextures, strategy, size, pad) ==
    LET packedTextures == packTextures(sortedTextures[strategy], size, pad)
    IN  [strategy |-> strategy, packedTextures |-> packedTextures,
         efficiency |-> calculatePackingEfficiency(packedTextures, size)]

\* packingResults.reduce((best, current) =>
\*     current.efficiency > best.efficiency ? current : best)
RECURSIVE reduceBest(_, _)
reduceBest(best, rest) ==
    IF rest = <<>> THEN best
    ELSE reduceBest(IF QuotientGreater(Head(rest).efficiency, best.efficiency)
                    THEN Head(rest) ELSE best,
                    Tail(rest))

\* createAtlasCanvas: one drawImage and one uvMap.set per packed texture,
\* a later set for the same path replacing an earlier one
createAtlasCanvas(packed, size) ==
    [canvas |-> [i \in 1..Len(packed) |->
                   [image |-> packed[i].image,
                    x |-> packed[i].x, y |-> packed[i].y]],
     uvMap |-> [path \in {packed[i].path : i \in 1..Len(packed)} |->
                  LET last == CHOOSE i \in 1..Len(packed) :
                                 /\ packed[i].path = path
                                 /\ \A j \in (i + 1)..Len(packed) :
                                       packed[j].path # path
                  IN  [u |-> Quotient(packed[last].x, size),
                       v |-> Quotient(packed[last].y, size),
                       width |-> Quotient(packed[last].width, size),
                       height |-> Quotient(packed[last].height, size)]]]

\* buildNewAtlas
BuildNewAtlas ==
    /\ apc = "start"
    /\ LET textureInfos == [i \in 1..Len(atlasTextures) |->
                              textureInfo(atlasTextures[i])]
           sortedTextures == sortTexturesForPacking(textureInfos)
           results == [i \in 1..Len(Strategies) |->
                         packWithStrategy(sortedTextures, Strategies[i],
                                          atlasSize, padding)]
           bestResult == reduceBest(Head(results), Tail(results))
           drawn == createAtlasCanvas(bestResult.packedTextures, atlasSize)
       IN  /\ packingResults' = results
           /\ atlasCanvas' = drawn.canvas
           /\ uvMap' = drawn.uvMap
    /\ apc' = "done"
    /\ UNCHANGED <<atlasSize, padding, atlasTextures, notAtlasVars>>

(* The inputs of buildNewAtlas *)

MaxTextures == 3

ImageSides == {1, 2, 3}

AtlasSizes == {4, 6}

Paddings == {0, 1}

Images == [width : ImageSides, height : ImageSides]

\* textures with distinct paths, as AssetLoader.buildTextureAtlas collects them
TextureArrays ==
    UNION {{[i \in 1..n |-> [path |-> TexturePaths[i], image |-> images[i]]] :
              images \in [1..n -> Images]} : n \in 1..MaxTextures}

NoUvMap == [path \in {} |-> Absent]

StartAtlas ==
    /\ atlasSize \in AtlasSizes
    /\ padding \in Paddings
    /\ atlasTextures \in TextureArrays
    /\ packingResults = <<>>
    /\ atlasCanvas = <<>>
    /\ uvMap = NoUvMap
    /\ apc = "start"

NextAtlas == BuildNewAtlas

----------------------------------------------------------------------------
(* ResourcePackManager, the pack side of AssetLoader, the mesh cache *)

\* the packs that can be loaded, and what each holds under the one resource
\* path that is followed; NoFile for a pack without that file
PackIds == {"p1", "p2"}

NoFile == "<no file>"

PackContent(packId) ==
    CASE packId = "p1" -> "A" [] packId = "p2" -> "B"

\* an empty cache
NoEntry == "<no entry>"

Reverse(seq) == [i \in 1..Len(seq) |-> seq[Len(seq) + 1 - i]]

\* getEnabledPacksInOrder
getEnabledPacksInOrder(ps, order) ==
    LET enabled(id) == ps[id].enabled IN SelectSeq(order, enabled)

\* getOrderedPacks: the zips to try, by content; the manager's enabled packs
\* reversed, or AssetLoader's own list when the manager has none
getOrderedPacks(ps, order, legacy) ==
    LET enabledPacks == getEnabledPacksInOrder(ps, order) IN
    IF Len(enabledPacks) > 0
    THEN [i \in 1..Len(enabledPacks) |-> PackContent(Reverse(enabledPacks)[i])]
    ELSE legacy

\* the loop over the ordered packs: the first zip that has the file
firstFile(zips) ==
    IF \E i \in 1..Len(zips) : zips[i] # NoFile
    THEN zips[CHOOSE i \in 1..Len(zips) :
                 zips[i] # NoFile /\ \A j \in 1..(i - 1) : zips[j] = NoFile]
    ELSE Undefined

\* what the packs in force hold under the path
currentContent == firstFile(getOrderedPacks(packs, packOrder, resourcePackOrder))

\* getNextPriority
getNextPriority(ps) ==
    IF DOMAIN ps = {} THEN 0
    ELSE (CHOOSE m \in {ps[id].priority : id \in DOMAIN ps} :
             \A id \in DOMAIN ps : ps[id].priority <= m) + 1

\* insertPackByPriority: before the first pack of a higher priority
insertPackByPriority(ps, order, packId, priority) ==
    LET higher == {i \in 1..Len(order) :
                     order[i] \in DOMAIN ps /\ ps[order[i]].priority > priority}
        insertIndex == IF higher = {} THEN Len(order)
                       ELSE (CHOOSE i \in higher : \A j \in higher : i <= j) - 1
    IN  SubSeq(order, 1, insertIndex) \o <<packId>>
          \o SubSeq(order, insertIndex + 1, Len(order))

\* this.packOrder.filter(id => id !== packId)
withoutPack(order, packId) ==
    LET other(id) == id # packId IN SelectSeq(order, other)

\* order.indexOf(packId), from 1; 0 for -1
indexOf(order, packId) ==
    IF \E i \in 1..Len(order) : order[i] = packId
    THEN CHOOSE i \in 1..Len(order) :
            order[i] = packId /\ \A j \in 1..(i - 1) : order[j] # packId
    ELSE 0

\* getAssetSource of the path the packs hold: the last enabled pack of
\* packOrder that has the file; Undefined for null
getAssetSource(ps, order) ==
    LET holders == {i \in 1..Len(order) :
                      ps[order[i]].enabled /\ PackContent(order[i]) # NoFile}
    IN  IF holders = {} THEN Undefined
        ELSE order[CHOOSE i \in holders : \A j \in holders : j <= i]

\* providers.sort((a, b) => b.priority - a.priority): a stable sort, the
\* highest priority first
RECURSIVE sortProviders(_, _)
sortProviders(providers, ps) ==
    IF providers = <<>> THEN <<>>
    ELSE LET first == CHOOSE i \in 1..Len(providers) :
                         /\ \A j \in 1..Len(providers) :
                               ps[providers[j]].priority
                                   <= ps[providers[i]].priority
                         /\ \A j \in 1..(i - 1) :
                               ps[providers[j]].priority
                                   < ps[providers[i]].priority
         IN  <<providers[first]>>
             \o sortProviders(SubSeq(providers, 1, first - 1)
                              \o SubSeq(providers, first + 1, Len(providers)),
                              ps)

\* getAssetConflicts: the enabled packs that have the file are collected in
\* the order of the Map; more than one of them make a conflict
getAssetConflicts(ps, keys) ==
    LET provides(id) == ps[id].enabled /\ PackContent(id) # NoFile
        providers == SelectSeq(keys, provides)
    IN  IF Len(providers) > 1
        THEN <<[providers |-> sortProviders(providers, ps),
                activeProvider |-> sortProviders(providers, ps)[1]]>>
        ELSE <<>>

\* triggerRebuild up to its first await: rebuildFromPackManager has cleared
\* the string, blockstate and model caches and is rebuilding the atlas
triggerRebuild ==
    /\ stringCache' = NoEntry
    /\ rebuilding' = TRUE

\* triggerRebuildIfNeeded
triggerRebuildIfNeeded ==
    IF batchUpdateDepth > 0
    THEN pendingRebuild' = TRUE /\ UNCHANGED <<stringCache, rebuilding>>
    ELSE IF autoRebuild
    THEN triggerRebuild /\ UNCHANGED pendingRebuild
    ELSE pendingRebuild' = TRUE /\ UNCHANGED <<stringCache, rebuilding>>

\* no loadPackFrom... call resolved in this step
NoLoad == [packId |-> Undefined, info |-> Undefined]

\* whether the packs or their order changed within the batch in progress
noteChange ==
    batchChanged' =
        /\ batchUpdateDepth' > 0
        /\ batchChanged \/ packs' # packs \/ packOrder' # packOrder

\* what no operation of the manager touches
managerFrame ==
    UNCHANGED <<resourcePackOrder, blockMeshCache, stringCall, meshCall,
                notPackVars>>

MaxPriority == 1

\* loadPackFromBlob of a blob that is not loaded yet
LoadPack(packId) ==
    /\ ~rebuilding
    /\ packId \notin DOMAIN packs
    /\ getNextPriority(packs) <= MaxPriority
    /\ LET priority == getNextPriority(packs)
           added == [id \in DOMAIN packs \cup {packId} |->
                       IF id = packId
                       THEN [priority |-> priority, enabled |-> TRUE]
                       ELSE packs[id]]
       IN  /\ packs' = added
           /\ packKeys' = Append(packKeys, packId)
           /\ packOrder' = insertPackByPriority(added, packOrder, packId,
                                                priority)
    /\ triggerRebuildIfNeeded
    /\ UNCHANGED <<autoRebuild, batchUpdateDepth>>
    /\ managerFrame
    /\ loadComplete' = [packId |-> packId, info |-> packId]
    /\ noteChange

\* generatePackId for a blob whose content is already loaded: an id no pack
\* has
NewPackId == "p_new"

\* loadPackFromBlob of a blob with the content (and so the hash) of the
\* loaded pack `existing`: loadPackInternal returns that pack's info
LoadPackAgain(existing) ==
    /\ ~rebuilding
    /\ existing \in DOMAIN packs
    /\ loadComplete' = [packId |-> NewPackId, info |-> existing]
    /\ UNCHANGED <<packs, packKeys, packOrder, autoRebuild, batchUpdateDepth,
                   pendingRebuild, rebuilding, stringCache>>
    /\ managerFrame
    /\ noteChange

RemovePack(packId) ==
    /\ ~rebuilding
    /\ packId \in DOMAIN packs
    /\ packs' = [id \in DOMAIN packs \ {packId} |-> packs[id]]
    /\ packKeys' = withoutPack(packKeys, packId)
    /\ packOrder' = withoutPack(packOrder, packId)
    /\ triggerRebuildIfNeeded
    /\ UNCHANGED <<autoRebuild, batchUpdateDepth>>
    /\ managerFrame
    /\ loadComplete' = NoLoad
    /\ noteChange

\* removeAllPacks: a batch around one removePack per pack
RemoveAllPacks ==
    /\ ~rebuilding
    /\ packs' = [id \in {} |-> packs[id]]
    /\ packKeys' = <<>>
    /\ packOrder' = <<>>
    /\ LET pending == pendingRebuild \/ DOMAIN packs # {} IN
       IF batchUpdateDepth = 0 /\ pending
       THEN pendingRebuild' = FALSE /\ triggerRebuild
       ELSE pendingRebuild' = pending /\ UNCHANGED <<stringCache, rebuilding>>
    /\ UNCHANGED <<autoRebuild, batchUpdateDepth>>
    /\ managerFrame
    /\ loadComplete' = NoLoad
    /\ noteChange

SetPackEnabled(packId, enabled) ==
    /\ ~rebuilding
    /\ packId \in DOMAIN packs
    /\ packs[packId].enabled # enabled
    /\ packs' = [packs EXCEPT ![packId].enabled = enabled]
    /\ UNCHANGED packKeys
    /\ triggerRebuildIfNeeded
    /\ UNCHANGED <<packOrder, autoRebuild, batchUpdateDepth>>
    /\ managerFrame
    /\ loadComplete' = NoLoad
    /\ noteChange

SetPackPriority(packId, priority) ==
    /\ ~rebuilding
    /\ packId \in DOMAIN packs
    /\ LET changed == [packs EXCEPT ![packId].priority = priority] IN
       /\ packs' = changed
       /\ UNCHANGED packKeys
       /\ packOrder' = insertPackByPriority(changed,
                                            withoutPack(packOrder, packId),
                                            packId, priority)
    /\ triggerRebuildIfNeeded
    /\ UNCHANGED <<autoRebuild, batchUpdateDepth>>
    /\ managerFrame
    /\ loadComplete' = NoLoad
    /\ noteChange

\* swap the pack at index with the one after it, priorities and positions
swapWithNext(index) ==
    LET lower == packOrder[index]
        upper == packOrder[index + 1]
    IN  /\ packs' = [packs EXCEPT ![lower].priority = packs[upper].priority,
                                  ![upper].priority = packs[lower].priority]
        /\ packOrder' = [packOrder EXCEPT ![index] = upper,
                                          ![index + 1] = lower]
        /\ UNCHANGED packKeys

MovePackUp(packId) ==
    /\ ~rebuilding
    /\ indexOf(packOrder, packId) \notin {0, Len(packOrder)}
    /\ swapWithNext(indexOf(packOrder, packId))
    /\ triggerRebuildIfNeeded
    /\ UNCHANGED <<autoRebuild, batchUpdateDepth>>
    /\ managerFrame
    /\ loadComplete' = NoLoad
    /\ noteChange

MovePackDown(packId) ==
    /\ ~rebuilding
    /\ indexOf(packOrder, packId) > 1
    /\ swapWithNext(indexOf(packOrder, packId) - 1)
    /\ triggerRebuildIfNeeded
    /\ UNCHANGED <<autoRebuild, batchUpdateDepth>>
    /\ managerFrame
    /\ loadComplete' = NoLoad
    /\ noteChange

\* reorderPacks with an array of loaded ids; forEach leaves each pack with
\* the index of its last occurrence
ReorderPacks(packIds) ==
    /\ ~rebuilding
    /\ Range(packIds) \subseteq DOMAIN packs
    /\ packs' = [id \in DOMAIN packs |->
                   IF id \in Range(packIds)
                   THEN [packs[id] EXCEPT !.priority =
                           (CHOOSE i \in 1..Len(packIds) :
                               /\ packIds[i] = id
                               /\ \A j \in (i + 1)..Len(packIds) :
                                     packIds[j] # id) - 1]
                   ELSE packs[id]]
    /\ packOrder' = packIds
    /\ UNCHANGED packKeys
    /\ triggerRebuildIfNeeded
    /\ UNCHANGED <<autoRebuild, batchUpdateDepth>>
    /\ managerFrame
    /\ loadComplete' = NoLoad
    /\ noteChange

\* importConfig: a batch in which the enabled state and priority of every
\* listed pack that is loaded are set and the order becomes the listed one
ImportConfig(config) ==
    LET listed == {config[i].id : i \in 1..Len(config)}
        entry(id) == config[CHOOSE i \in 1..Len(config) :
                              /\ config[i].id = id
                              /\ \A j \in (i + 1)..Len(config) :
                                    config[j].id # id]
        configOrder[i \in 0..Len(config)] ==
            IF i = 0 THEN <<>>
            ELSE IF config[i].id \in DOMAIN packs
            THEN Append(configOrder[i - 1], config[i].id)
            ELSE configOrder[i - 1]
    IN  /\ ~rebuilding
        /\ packs' = [id \in DOMAIN packs |->
                       IF id \in listed
                       THEN [priority |-> entry(id).priority,
                             enabled |-> entry(id).enabled]
                       ELSE packs[id]]
        /\ packOrder' = configOrder[Len(config)]
        /\ UNCHANGED packKeys
        /\ IF batchUpdateDepth = 0 /\ pendingRebuild
           THEN pendingRebuild' = FALSE /\ triggerRebuild
           ELSE UNCHANGED <<pendingRebuild, stringCache, rebuilding>>
        /\ UNCHANGED <<autoRebuild, batchUpdateDepth>>
        /\ managerFrame
        /\ loadComplete' = NoLoad
        /\ noteChange

MaxBatchDepth == 1

BeginBatchUpdate ==
    /\ ~rebuilding
    /\ batchUpdateDepth < MaxBatchDepth
    /\ batchUpdateDepth' = batchUpdateDepth + 1
    /\ UNCHANGED <<packs, packKeys, packOrder, autoRebuild, pendingRebuild, rebuilding,
                   stringCache>>
    /\ managerFrame
    /\ loadComplete' = NoLoad
    /\ noteChange

EndBatchUpdate ==
    /\ ~rebuilding
    /\ batchUpdateDepth' = Max(0, batchUpdateDepth - 1)
    /\ IF batchUpdateDepth' = 0 /\ pendingRebuild
       THEN pendingRebuild' = FALSE /\ triggerRebuild
       ELSE UNCHANGED <<pendingRebuild, stringCache, rebuilding>>
    /\ UNCHANGED <<packs, packKeys, packOrder, autoRebuild>>
    /\ managerFrame
    /\ loadComplete' = NoLoad
    /\ noteChange

SetAutoRebuild(enabled) ==
    /\ ~rebuilding
    /\ autoRebuild # enabled
    /\ autoRebuild' = enabled
    /\ UNCHANGED <<packs, packKeys, packOrder, batchUpdateDepth, pendingRebuild,
                   rebuilding, stringCache>>
    /\ managerFrame
    /\ loadComplete' = NoLoad
    /\ noteChange

\* rebuildAtlas
RebuildAtlas ==
    /\ ~rebuilding
    /\ triggerRebuild
    /\ UNCHANGED <<packs, packKeys, packOrder, autoRebuild, batchUpdateDepth,
                   pendingRebuild>>
    /\ managerFrame
    /\ loadComplete' = NoLoad
    /\ noteChange

\* the rest of triggerRebuild: the atlas is rebuilt, onMeshRebuildNeeded
\* runs clearMeshCaches
RebuildDone ==
    /\ rebuilding
    /\ rebuilding' = FALSE
    /\ blockMeshCache' = NoEntry
    /\ UNCHANGED <<packs, packKeys, packOrder, autoRebuild, batchUpdateDepth,
                   pendingRebuild, resourcePackOrder, stringCache, stringCall,
                   meshCall, notPackVars>>
    /\ loadComplete' = NoLoad
    /\ UNCHANGED batchChanged

MaxLegacyPacks == 2

\* Cubane.loadResourcePack(blob): AssetLoader.loadResourcePack registers the
\* zip in front of its list, then Cubane clears the mesh caches
LoadResourcePack(content) ==
    /\ Len(resourcePackOrder) < MaxLegacyPacks
    /\ resourcePackOrder' = <<content>> \o resourcePackOrder
    /\ blockMeshCache' = NoEntry
    /\ UNCHANGED <<packs, packKeys, packOrder, autoRebuild, batchUpdateDepth,
                   pendingRebuild, rebuilding, stringCache, stringCall,
                   meshCall, notPackVars>>
    /\ loadComplete' = NoLoad
    /\ UNCHANGED batchChanged

\* a call: what it returns, and what the packs in force held under the path
\* when it was made
NoCall ==
    [pc |-> "idle", kind |-> "string", content |-> Undefined,
     expected |-> Undefined]

\* getResourceString and getResourceBlob up to `await file.async(...)`;
\* only getResourceString looks in the cache
GetResourceBegin(kind) ==
    /\ stringCall.pc \in {"idle", "done"}
    /\ LET file == firstFile(getOrderedPacks(packs, packOrder,
                                             resourcePackOrder))
       IN  stringCall' =
             IF kind = "string" /\ stringCache # NoEntry
             THEN [pc |-> "done", kind |-> kind, content |-> stringCache,
                   expected |-> currentContent]
             ELSE IF file = Undefined
             THEN [pc |-> "done", kind |-> kind, content |-> Undefined,
                   expected |-> currentContent]
             ELSE [pc |-> "reading", kind |-> kind, content |-> file,
                   expected |-> currentContent]
    /\ UNCHANGED <<packs, packKeys, packOrder, autoRebuild, batchUpdateDepth,
                   pendingRebuild, rebuilding, resourcePackOrder, stringCache,
                   blockMeshCache, meshCall, notPackVars>>
    /\ loadComplete' = NoLoad
    /\ UNCHANGED batchChanged

\* the file is read: getResourceString stores it in the cache; both return it
GetResourceEnd ==
    /\ stringCall.pc = "reading"
    /\ stringCache' = IF stringCall.kind = "string" THEN stringCall.content
                      ELSE stringCache
    /\ stringCall' = [stringCall EXCEPT !.pc = "done"]
    /\ UNCHANGED <<packs, packKeys, packOrder, autoRebuild, batchUpdateDepth,
                   pendingRebuild, rebuilding, resourcePackOrder,
                   blockMeshCache, meshCall, notPackVars>>
    /\ loadComplete' = NoLoad
    /\ UNCHANGED batchChanged

NoMeshCall == [pc |-> "idle", content |-> Undefined]

\* getBlockMesh with useCache: a cached mesh is returned at once; otherwise
\* the block's resources are read, through the string cache, and the mesh is
\* being built from them
GetBlockMeshBegin ==
    /\ meshCall.pc \in {"idle", "done"}
    /\ IF blockMeshCache # NoEntry
       THEN /\ meshCall' = [pc |-> "done", content |-> blockMeshCache]
            /\ UNCHANGED stringCache
       ELSE LET file == firstFile(getOrderedPacks(packs, packOrder,
                                                  resourcePackOrder))
                content == IF stringCache # NoEntry THEN stringCache ELSE file
            IN  /\ meshCall' = [pc |-> "building", content |-> content]
                /\ stringCache' = IF content = Undefined THEN stringCache
                                  ELSE content
    /\ UNCHANGED <<packs, packKeys, packOrder, autoRebuild, batchUpdateDepth,
                   pendingRebuild, rebuilding, resourcePackOrder,
                   blockMeshCache, stringCall, notPackVars>>
    /\ loadComplete' = NoLoad
    /\ UNCHANGED batchChanged

\* this.blockMeshCache.set(cacheKey, ...) and return
GetBlockMeshStore ==
    /\ meshCall.pc = "building"
    /\ blockMeshCache' = meshCall.content
    /\ meshCall' = [meshCall EXCEPT !.pc = "done"]
    /\ UNCHANGED <<packs, packKeys, packOrder, autoRebuild, batchUpdateDepth,
                   pendingRebuild, rebuilding, resourcePackOrder, stringCache,
                   stringCall, notPackVars>>
    /\ loadComplete' = NoLoad
    /\ UNCHANGED batchChanged

NoPacks == [id \in {} |-> [priority |-> 0, enabled |-> TRUE]]

MaxReorder == 2

\* after construction
StartPacks ==
    /\ packs = NoPacks
    /\ packKeys = <<>>
    /\ packOrder = <<>>
    /\ autoRebuild = TRUE
    /\ batchUpdateDepth = 0
    /\ pendingRebuild = FALSE
    /\ rebuilding = FALSE
    /\ resourcePackOrder = <<>>
    /\ stringCache = NoEntry
    /\ blockMeshCache = NoEntry
    /\ stringCall = NoCall
    /\ meshCall = NoMeshCall
    /\ loadComplete = NoLoad
    /\ batchChanged = FALSE

ResourceCalls ==
    \/ \E kind \in {"string", "blob"} : GetResourceBegin(kind)
    \/ GetResourceEnd

MeshCalls ==
    \/ GetBlockMeshBegin
    \/ GetBlockMeshStore

\* the configurations importConfig is given: at most one entry per pack
Configs ==
    {config \in UNION {[1..n -> [id : PackIds, priority : {0, 1},
                                 enabled : BOOLEAN]] : n \in 0..2} :
        \A i, j \in 1..Len(config) : i # j => config[i].id # config[j].id}

\* the operations of the manager on packs that are not loaded twice
ManagerOperations ==
    \/ \E packId \in PackIds : LoadPack(packId)
    \/ \E packId \in PackIds : RemovePack(packId)
    \/ RemoveAllPacks
    \/ \E packId \in PackIds, enabled \in BOOLEAN :
          SetPackEnabled(packId, enabled)
    \/ \E packId \in PackIds, priority \in 0..MaxPriority :
          SetPackPriority(packId, priority)
    \/ \E packId \in PackIds : MovePackUp(packId)
    \/ \E packId \in PackIds : MovePackDown(packId)
    \/ \E n \in 0..MaxReorder : \E packIds \in [1..n -> PackIds] :
          ReorderPacks(packIds)
    \/ BeginBatchUpdate
    \/ EndBatchUpdate
    \/ \E enabled \in BOOLEAN : SetAutoRebuild(enabled)
    \/ RebuildAtlas

\* the manager and the getBlockMesh calls that go through the mesh cache
NextPacks ==
    \/ ManagerOperations
    \/ RebuildDone
    \/ MeshCalls

\* the manager alone, with every way to load and to configure
NextManager ==
    \/ ManagerOperations
    \/ \E packId \in PackIds : LoadPackAgain(packId)
    \/ \E config \in Configs : ImportConfig(config)
    \/ RebuildDone

\* the packs are loaded through Cubane.loadResourcePack only
NextLegacy ==
    \/ \E content \in {"A", "B", NoFile} : LoadResourcePack(content)
    \/ ResourceCalls
    \/ MeshCalls

----------------------------------------------------------------------------
(* Cubane.getBlockMesh with its cache, several calls in flight.  A mesh is *)
(* the Object3D tree as far as the callers can tell meshes apart: its name, *)
(* its children with their vertex and index counts, and the properties the *)
(* code attaches to the object outside userData.                           *)

\* Cubane.getSignEntityMap: the signs are pure block entities
SignBlocks == {"minecraft:oak_sign"}

BlockStrings == {"minecraft:stone", "minecraft:oak_sign"}

\* biome names hold no ":", so that `${blockString}:${biome}` determines both
Biomes == {"plains", "desert"}

\* the sign text carried by nbtData; Undefined when the argument is omitted
NbtData == {Undefined, "Hello"}

\* const cacheKey = `${blockString}:${biome}`
cacheKey(blockString, biome) == <<blockString, biome>>

CacheKeys == {cacheKey(s, b) : s \in BlockStrings, b \in Biomes}

Part(name, vertices, indices, text) ==
    [name |-> name, vertices |-> vertices, indices |-> indices, text |-> text]

\* Cubane.renderSignText: a text plane is added to the sign
renderSignText(entityMesh, nbtData) ==
    [entityMesh EXCEPT
        !.children = Append(@, Part("sign_text_overlay", 4, 6, nbtData))]

\* Cubane.applySignPositioning, for a sign
applySignPositioning(entityMesh, nbtData) ==
    IF nbtData # Undefined
    THEN renderSignText(entityMesh, nbtData)
    ELSE entityMesh

\* Cubane.getEntityMesh: the model of the entity renderer, or a clone of it
getEntityMesh(entityType) ==
    [name |-> "entity", children |-> <<Part("sign_board", 24, 36, Undefined)>>,
     custom |-> {}]

\* THREE.Object3D.clone(): name, transform, userData and children are copied,
\* properties assigned to the object by the caller are not
clone(object) == [object EXCEPT !.custom = {}]

\* getBlockMesh past the cache test: the mesh it builds
computeBlockMesh(blockString, biome, nbtData) ==
    IF blockString \in SignBlocks
    THEN applySignPositioning(getEntityMesh(blockString), nbtData)
    ELSE [name |-> "block",
          children |-> <<Part("model", 24, 36, Undefined)>>,
          custom |-> {"blockData", "biome"}]

NoCachedMesh == [name |-> Undefined, children |-> <<>>, custom |-> {}]

NoSlot ==
    [pc |-> "idle", blockString |-> Undefined, biome |-> Undefined,
     useCache |-> TRUE, nbtData |-> Undefined, call |-> 0]

Slots == {1, 2}

MaxCalls == 3

Arguments ==
    [blockString : BlockStrings, biome : Biomes, useCache : BOOLEAN,
     nbtData : NbtData]

\* an object is told from every other by the call that made it and by how:
\* built by the call, cloned by it for the cache, or cloned from the cache
ObjectOf(call, how) == <<call, how>>

NoObjectYet == ObjectOf(0, "none")

\* no call has resolved yet.  Of the call that resolved last: its arguments,
\* whether it was served from the cache and from which entry, the mesh and
\* the object it resolved with, and whether it wrote to the cache
NoReturn ==
    [arguments |-> [blockString |-> Undefined, biome |-> Undefined,
                    useCache |-> TRUE, nbtData |-> Undefined],
     hit |-> FALSE, mesh |-> NoCachedMesh, object |-> NoObjectYet,
     entry |-> NoCachedMesh, cacheWritten |-> FALSE]

cacheHit_ignoresUseCache(useCache, entry) == entry # NoCachedMesh

\* useCache && this.blockMeshCache.has(cacheKey)
cacheHit(useCache, entry) == useCache /\ entry # NoCachedMesh

\* getBlockMesh(blockString, biome, useCache, nbtData) up to its first
\* await: with useCache a cache hit resolves with a clone; otherwise the
\* call starts building
GetBlockMeshCall(slot, blockString, biome, useCache, nbtData) ==
    LET key == cacheKey(blockString, biome)
        args == [blockString |-> blockString, biome |-> biome,
                 useCache |-> useCache, nbtData |-> nbtData]
    IN  /\ callSlots[slot].pc = "idle"
        /\ callsMade < MaxCalls
        /\ callsMade' = callsMade + 1
        /\ IF cacheHit(useCache, cachedMeshes[key])
           THEN /\ returnedMeshes' =
                       [returnedMeshes EXCEPT
                           ![args] = @ \cup {clone(cachedMeshes[key])}]
                /\ lastReturn' =
                       [arguments |-> args, hit |-> TRUE,
                        mesh |-> clone(cachedMeshes[key]),
                        object |-> ObjectOf(callsMade + 1, "clone"),
                        entry |-> cachedMeshes[key],
                        cacheWritten |-> FALSE]
                /\ UNCHANGED <<callSlots, cachedMeshes, computations,
                               storedObjects>>
           ELSE /\ callSlots' =
                       [callSlots EXCEPT
                           ![slot] = [pc |-> "building",
                                      blockString |-> blockString,
                                      biome |-> biome, useCache |-> useCache,
                                      nbtData |-> nbtData,
                                      call |-> callsMade + 1]]
                /\ UNCHANGED <<returnedMeshes, cachedMeshes, computations,
                               storedObjects, lastReturn>>
        /\ UNCHANGED notCacheVars

\* the rest of a call that builds: with useCache a clone of the mesh is put
\* in the cache; the mesh itself is returned
GetBlockMeshBuilt(slot) ==
    LET call == callSlots[slot]
        key == cacheKey(call.blockString, call.biome)
        args == [blockString |-> call.blockString, biome |-> call.biome,
                 useCache |-> call.useCache, nbtData |-> call.nbtData]
        built == computeBlockMesh(call.blockString, call.biome, call.nbtData)
    IN  /\ call.pc = "building"
        /\ IF call.useCache
           THEN /\ cachedMeshes' = [cachedMeshes EXCEPT ![key] = clone(built)]
                /\ storedObjects' =
                       [storedObjects EXCEPT
                           ![key] = ObjectOf(call.call, "stored")]
                /\ computations' = [computations EXCEPT ![key] = @ + 1]
           ELSE UNCHANGED <<cachedMeshes, storedObjects, computations>>
        /\ returnedMeshes' = [returnedMeshes EXCEPT ![args] = @ \cup {built}]
        /\ lastReturn' =
               [arguments |-> args, hit |-> FALSE, mesh |-> built,
                object |-> ObjectOf(call.call, "built"),
                entry |-> NoCachedMesh,
                cacheWritten |-> storedObjects' # storedObjects]
        /\ callSlots' = [callSlots EXCEPT ![slot] = NoSlot]
        /\ UNCHANGED <<callsMade, notCacheVars>>

StartCache ==
    /\ cachedMeshes = [key \in CacheKeys |-> NoCachedMesh]
    /\ callSlots = [slot \in Slots |-> NoSlot]
    /\ returnedMeshes = [args \in Arguments |-> {}]
    /\ computations = [key \in CacheKeys |-> 0]
    /\ callsMade = 0
    /\ storedObjects = [key \in CacheKeys |-> NoObjectYet]
    /\ lastReturn = NoReturn

NextCache ==
    \/ \E slot \in Slots, blockString \in BlockStrings, biome \in Biomes,
          useCache \in BOOLEAN, nbtData \in NbtData :
          GetBlockMeshCall(slot, blockString, biome, useCache, nbtData)
    \/ \E slot \in Slots : GetBlockMeshBuilt(slot)

----------------------------------------------------------------------------
(* BlockMeshBuilder.createBlockMesh.  An element is the sequence of its    *)
(* faces in the order of Object.entries(element.faces); a face is its      *)
(* direction, the texture path its texture resolves to and the from/to box *)
(* of its element.  A geometry is its vertex buffer and its index, with    *)
(* their lengths.                                                          *)

\* element.from and element.to, in model pixels
Box(from, to) == [from |-> from, to |-> to]

\* element.from || [0, 0, 0], element.to || [16, 16, 16]
FullBox == Box(<<0, 0, 0>>, <<16, 16, 16>>)

BoxFace(box, direction, texture) ==
    [direction |-> direction, texture |-> texture, box |-> box]

Face(direction, texture) == BoxFace(FullBox, direction, texture)

\* the transform argument: its block field and the blockstate rotation
Transform(transformBlock, x, y, uvlock) ==
    [block |-> transformBlock, x |-> x, y |-> y, uvlock |-> uvlock]

blockOf(name, waterlogged) ==
    [namespace |-> "minecraft", name |-> name, waterlogged |-> waterlogged]

\* an omitted block argument, a transform without block
NoBlock ==
    [namespace |-> Undefined, name |-> Undefined, waterlogged |-> Undefined]

\* blockId of a block, "none" without one
blockId(blockData) ==
    IF blockData = NoBlock THEN "none"
    ELSE <<blockData.namespace, blockData.name>>

isWaterBlock(blockData) ==
    blockData # NoBlock /\ blockId(blockData) = <<"minecraft", "water">>

isLavaBlock(blockData) ==
    blockData # NoBlock /\ blockId(blockData) = <<"minecraft", "lava">>

isLiquidBlock(blockData) == isWaterBlock(blockData) \/ isLavaBlock(blockData)

\* const blockData = block || transform.block
blockDataOf_transformFirst(blockArg, transformBlock) ==
    IF transformBlock # NoBlock THEN transformBlock ELSE blockArg

blockDataOf(blockArg, transformBlock) ==
    IF blockArg # NoBlock THEN blockArg ELSE transformBlock

\* blockData?.properties?.waterlogged === "true"
isWaterlogged(blockData) ==
    blockData # NoBlock /\ blockData.waterlogged = "true"

\* the texture a face is drawn with: liquids replace the model's texture
faceTexture(face, blockData) ==
    IF isWaterBlock(blockData)
    THEN (IF face.direction = "up" THEN "block/water_still"
          ELSE "block/water_flow")
    ELSE IF isLavaBlock(blockData)
    THEN (IF face.direction = "up" THEN "block/lava_still"
          ELSE "block/lava_flow")
    ELSE face.texture

\* getMaterialKey: the parts of the key that vary within the model
getMaterialKey(path, direction, blockData) ==
    <<path, direction, blockId(blockData)>>

\* textures for which AssetLoader.getMaterial rejects
BrokenTextures == {"block/broken"}

\* createFaceMaterial: a clone of the loader's material, or the fallback
\* material when the loader fails
createFaceMaterial(path) ==
    IF path \in BrokenTextures
    THEN [transparent |-> TRUE, depthWrite |-> TRUE, wireframe |-> TRUE]
    ELSE [transparent |-> FALSE, depthWrite |-> TRUE, wireframe |-> FALSE]

\* createTempFaceGeometry throws for a direction it does not know
faceThrows(face) == face.direction \notin Directions

\* "Water level adjustment": a water element that reaches 16 ends at 14
elementBox(box, blockData) ==
    IF isWaterBlock(blockData) /\ box.to[2] = 16
    THEN Box(box.from, <<box.to[1], 14, box.to[3]>>)
    ELSE box

\* (c / 16 - 0.5).toFixed(6), in millionths
quantize(c) == c * 62500 - 500000

\* (u / 16).toFixed(6), in millionths
quantizeUV(u) == u * 62500

\* the four vertices of the face's PlaneGeometry after its rotation, its
\* translation to the face and applyElementTransforms, in model pixels
facePositions(direction, box) ==
    LET f == box.from
        t == box.to
    IN  CASE direction = "down" ->
               <<<<f[1], f[2], t[3]>>, <<t[1], f[2], t[3]>>,
                 <<f[1], f[2], f[3]>>, <<t[1], f[2], f[3]>>>>
          [] direction = "up" ->
               <<<<f[1], t[2], f[3]>>, <<t[1], t[2], f[3]>>,
                 <<f[1], t[2], t[3]>>, <<t[1], t[2], t[3]>>>>
          [] direction = "north" ->
               <<<<t[1], t[2], f[3]>>, <<f[1], t[2], f[3]>>,
                 <<t[1], f[2], f[3]>>, <<f[1], f[2], f[3]>>>>
          [] direction = "south" ->
               <<<<f[1], t[2], t[3]>>, <<t[1], t[2], t[3]>>,
                 <<f[1], f[2], t[3]>>, <<t[1], f[2], t[3]>>>>
          [] direction = "west" ->
               <<<<f[1], t[2], f[3]>>, <<f[1], t[2], t[3]>>,
                 <<f[1], f[2], f[3]>>, <<f[1], f[2], t[3]>>>>
          [] direction = "east" ->
               <<<<t[1], t[2], t[3]>>, <<t[1], t[2], f[3]>>,
                 <<t[1], f[2], t[3]>>, <<t[1], f[2], f[3]>>>>

getFaceNormal(direction) ==
    CASE direction = "down" -> <<0, -1, 0>>
      [] direction = "up" -> <<0, 1, 0>>
      [] direction = "north" -> <<0, 0, -1>>
      [] direction = "south" -> <<0, 0, 1>>
      [] direction = "west" -> <<-1, 0, 0>>
      [] direction = "east" -> <<1, 0, 0>>
      [] OTHER -> <<0, 1, 0>>

\* applyUVRotation on [TL, TR, BL, BR]
applyUVRotation(uvs, rotation) ==
    CASE rotation = 90 -> <<uvs[3], uvs[1], uvs[4], uvs[2]>>
      [] rotation = 180 -> <<uvs[4], uvs[3], uvs[2], uvs[1]>>
      [] rotation = 270 -> <<uvs[2], uvs[4], uvs[1], uvs[3]>>
      [] OTHER -> uvs

\* mapUVCoordinates for a face without uv and rotation of its own: the
\* default [0, 0, 16, 16], turned by the blockstate's y unless uvlock is set
mapUVCoordinates(direction, transform) ==
    LET uvCoords == <<<<0, 16>>, <<16, 16>>, <<0, 0>>, <<16, 0>>>>
        yRot == IF transform.uvlock THEN 0
                ELSE IF direction \in {"up", "north", "east"} THEN transform.y
                ELSE 0 - transform.y
        totalRotation == ((yRot % 360) + 360) % 360
    IN  applyUVRotation(uvCoords, totalRotation)

\* the vertices createTempFaceGeometry extracts for a face, as the keys
\* createIndexedGeometryFromFaces compares: quantized position, normal, UV
faceVertices(face, blockData, transform) ==
    LET positions == facePositions(face.direction,
                                   elementBox(face.box, blockData))
        uvs == mapUVCoordinates(face.direction, transform)
    IN  [i \in 1..4 |->
            [position |-> <<quantize(positions[i][1]),
                            quantize(positions[i][2]),
                            quantize(positions[i][3])>>,
             normal |-> getFaceNormal(face.direction),
             uv |-> <<quantizeUV(uvs[i][1]), quantizeUV(uvs[i][2])>>]]

\* the index of a PlaneGeometry of one segment
PlaneIndex == <<0, 2, 1, 2, 3, 1>>

\* vertexMap.get(key), from 0; -1 when the map has no such key
vertexIndexOf(buffer, vertex) ==
    LET hits == {j \in 1..Len(buffer) : buffer[j] = vertex}
    IN  IF hits = {} THEN -1 ELSE (CHOOSE j \in hits : TRUE) - 1

\* the loop over the vertices of one face: [buffer, faceIndices]
RECURSIVE addVertices(_, _, _, _)
addVertices(buffer, faceIndices, vertices, i) ==
    IF i > Len(vertices) THEN [buffer |-> buffer, faceIndices |-> faceIndices]
    ELSE LET known == vertexIndexOf(buffer, vertices[i])
         IN  IF known >= 0
             THEN addVertices(buffer, Append(faceIndices, known), vertices,
                              i + 1)
             ELSE addVertices(Append(buffer, vertices[i]),
                              Append(faceIndices, Len(buffer)), vertices,
                              i + 1)

\* createIndexedGeometryFromFaces, one face further: [buffer, index]
addIndexedFace(buffer, index, vertices) ==
    LET added == addVertices(buffer, <<>>, vertices, 1)
    IN  [buffer |-> added.buffer,
         index |-> index \o [k \in 1..Len(PlaneIndex) |->
                                added.faceIndices[PlaneIndex[k] + 1]]]

\* manualMergeGeometries of two geometries: the buffers one after the other,
\* the second index moved by the first buffer's length
manualMergeGeometries(first, second) ==
    [buffer |-> first.buffer \o second.buffer,
     index |-> first.index
                 \o [k \in 1..Len(second.index) |->
                        second.index[k] + Len(first.buffer)]]

indexOfKey(groups, key) ==
    LET hits == {i \in 1..Len(groups) : groups[i].materialKey = key}
    IN  IF hits = {} THEN 0 ELSE CHOOSE i \in hits : TRUE

\* one more face for the group of its material key, indexed as
\* createIndexedGeometryFromFaces does; a new group is appended, Map
\* insertion order
addFace(groups, face, blockData, transform) ==
    LET path == faceTexture(face, blockData)
        key == getMaterialKey(path, face.direction, blockData)
        at == indexOfKey(groups, key)
        withFace(geometry) ==
            [materialKey |-> key,
             vertices |-> Len(geometry.buffer),
             indices |-> Len(geometry.index),
             buffer |-> geometry.buffer, index |-> geometry.index,
             material |-> createFaceMaterial(path),
             isLiquid |-> isLiquidBlock(blockData),
             isWater |-> isWaterBlock(blockData)]
    IN  CHOOSE result \in
            {IF at = 0
             THEN Append(groups,
                         withFace(addIndexedFace(<<>>, <<>>, vertices)))
             ELSE [groups EXCEPT
                      ![at] = withFace(addIndexedFace(groups[at].buffer,
                                                      groups[at].index,
                                                      vertices))] :
                vertices \in {faceVertices(face, blockData, transform)}} : TRUE

RECURSIVE addFaces(_, _, _, _)
addFaces(groups, faces, blockData, transform) ==
    IF faces = <<>> THEN groups
    ELSE CHOOSE result \in
             {addFaces(next, Tail(faces), blockData, transform) :
                 next \in {addFace(groups, Head(faces), blockData,
                                   transform)}} : TRUE

\* createElementGeometries: the geometries of one element by material key,
\* or an exception
createElementGeometries(element, blockData, transform) ==
    IF \E i \in 1..Len(element) : faceThrows(element[i])
    THEN [threw |-> TRUE, geometries |-> <<>>]
    ELSE [threw |-> FALSE,
          geometries |-> addFaces(<<>>, element, blockData, transform)]

\* the merge of one element geometry into geometryGroups
mergeGeometry(groups, geometry) ==
    LET at == indexOfKey(groups, geometry.materialKey)
    IN  IF at = 0 THEN Append(groups, geometry)
        ELSE CHOOSE result \in
                 {[groups EXCEPT ![at].vertices = Len(merged.buffer),
                                 ![at].indices = Len(merged.index),
                                 ![at].buffer = merged.buffer,
                                 ![at].index = merged.index] :
                     merged \in {manualMergeGeometries(groups[at],
                                                        geometry)}} : TRUE

RECURSIVE mergeGeometries(_, _)
mergeGeometries(groups, geometries) ==
    IF geometries = <<>> THEN groups
    ELSE CHOOSE result \in
             {mergeGeometries(next, Tail(geometries)) :
                 next \in {mergeGeometry(groups, Head(geometries))}} : TRUE

\* the loop over model.elements with its try/catch
RECURSIVE geometryGroups(_, _, _, _)
geometryGroups(groups, elements, blockData, transform) ==
    IF elements = <<>> THEN groups
    ELSE CHOOSE result \in
             {geometryGroups(
                  IF made.threw THEN groups
                  ELSE mergeGeometries(groups, made.geometries),
                  Tail(elements), blockData, transform) :
                  made \in {createElementGeometries(Head(elements),
                                                     blockData,
                                                     transform)}} : TRUE

\* the BoxGeometry of the placeholder: six faces of four vertices each
BoxFaces == <<"east", "west", "up", "down", "south", "north">>

BoxBuffer ==
    [i \in 1..(4 * Len(BoxFaces)) |->
        LET face == BoxFaces[((i - 1) \div 4) + 1]
            corner == ((i - 1) % 4) + 1
        IN  [position |->
                 LET at == facePositions(face, FullBox)[corner]
                 IN  <<quantize(at[1]), quantize(at[2]), quantize(at[3])>>,
             normal |-> getFaceNormal(face),
             uv |-> LET uvs == <<<<0, 16>>, <<16, 16>>, <<0, 0>>, <<16, 0>>>>
                    IN  <<quantizeUV(uvs[corner][1]),
                          quantizeUV(uvs[corner][2])>>]]

BoxIndex ==
    [k \in 1..(Len(PlaneIndex) * Len(BoxFaces)) |->
        4 * ((k - 1) \div Len(PlaneIndex))
            + PlaneIndex[((k - 1) % Len(PlaneIndex)) + 1]]

\* createPlaceholderCube
createPlaceholderCube ==
    [type |-> "Mesh", children |-> <<>>, materialKey |-> <<"placeholder">>,
     vertices |-> 24, indices |-> 36,
     buffer |-> BoxBuffer, index |-> BoxIndex,
     material |-> [transparent |-> FALSE, depthWrite |-> TRUE,
                   wireframe |-> TRUE],
     userData |-> {}, renderOrder |-> 0, custom |-> {}]

\* new THREE.Mesh(geometry, material) with the liquid marks
groupMesh(group) ==
    [type |-> "Mesh", children |-> <<>>, materialKey |-> group.materialKey,
     vertices |-> group.vertices, indices |-> group.indices,
     buffer |-> group.buffer, index |-> group.index,
     material |-> group.material,
     userData |-> (IF group.isLiquid THEN {"isLiquid"} ELSE {})
                  \cup (IF group.isLiquid /\ group.isWater
                        THEN {"isWater"} ELSE {}),
     renderOrder |-> IF group.isLiquid /\ group.isWater THEN 1 ELSE 0,
     custom |-> {}]

Group(children, custom) ==
    [type |-> "Group", children |-> children, materialKey |-> <<"none">>,
     vertices |-> 0, indices |-> 0, buffer |-> <<>>, index |-> <<>>,
     material |-> [transparent |-> FALSE, depthWrite |-> TRUE,
                   wireframe |-> FALSE],
     userData |-> {}, renderOrder |-> 0, custom |-> custom]

groupMeshes(groups) ==
    CHOOSE meshes \in
        {[i \in 1..Len(made) |-> groupMesh(made[i])] : made \in {groups}} :
        TRUE

\* a variant that returns the final group even when it has no children
createBlockMeshNoWater_emptyGroup(model, blockArg, transform) ==
    LET blockData == blockDataOf(blockArg, transform.block)
    IN  Group(groupMeshes(geometryGroups(<<>>, model, blockData, transform)),
              {"biome"})

\* createBlockMeshNoWater(model, transform, block, biome)
createBlockMeshNoWater(model, blockArg, transform) ==
    LET blockData == blockDataOf(blockArg, transform.block)
        finalGroup(children) ==
            IF model = <<>> THEN createPlaceholderCube
            ELSE IF children = <<>> THEN createPlaceholderCube
            ELSE Group(children,
                       {"biome"}
                       \cup (IF blockData # NoBlock THEN {"blockData"}
                             ELSE {})
                       \cup (IF isLiquidBlock(blockData) THEN {"isLiquid"}
                             ELSE {})
                       \cup (IF isWaterBlock(blockData) THEN {"isWater"}
                             ELSE {}))
    IN  CHOOSE result \in
            {finalGroup(children) :
                children \in
                    {groupMeshes(geometryGroups(<<>>, model, blockData,
                                                transform))}} :
            TRUE

\* const waterModel: the cube the water of a waterlogged block is built from
waterModel ==
    << <<Face("down", "block/water_still"), Face("up", "block/water_still"),
         Face("north", "block/water_flow"), Face("south", "block/water_flow"),
         Face("west", "block/water_flow"), Face("east", "block/water_flow")>> >>

waterBlock == blockOf("water", Undefined)

\* waterMesh.children.forEach: render order and material of the water meshes
markWater(child) ==
    IF child.type = "Mesh"
    THEN [child EXCEPT !.renderOrder = 1, !.material.transparent = TRUE,
                       !.material.depthWrite = FALSE]
    ELSE child

setWaterProperties(waterMesh) ==
    IF waterMesh.type = "Group"
    THEN [waterMesh EXCEPT
             !.children = [i \in 1..Len(@) |-> markWater(@[i])]]
    ELSE waterMesh

\* the group createWaterloggedBlockMesh returns
waterloggedGroup(mainBlockMesh, waterMesh) ==
    Group(<<mainBlockMesh, setWaterProperties(waterMesh)>>,
          {"isWaterlogged", "blockData", "biome"})

NoObject == Group(<<>>, {"none"})

Call(model, blockArg) ==
    [model |-> model, block |-> blockArg, pc |-> "call", mesh |-> NoObject]

MaxStack == 3

\* createBlockMesh up to the point where its mesh is known or, for a
\* waterlogged block, up to createWaterloggedBlockMesh's recursive call of
\* createBlockMesh for the water
CreateBlockMesh ==
    LET top == callStack[Len(callStack)]
        blockData == blockDataOf(top.block, builderTransform.block)
        main == createBlockMeshNoWater(top.model, top.block, builderTransform)
    IN  /\ callStack # <<>>
        /\ top.pc = "call"
        /\ IF isWaterlogged(blockData)
           THEN /\ Len(callStack) < MaxStack
                /\ waterloggedEntries' = waterloggedEntries + 1
                /\ callStack' =
                       Append([callStack EXCEPT
                                  ![Len(callStack)] =
                                      [top EXCEPT !.pc = "water",
                                                  !.mesh = main]],
                              Call(waterModel, waterBlock))
           ELSE /\ callStack' =
                       [callStack EXCEPT
                           ![Len(callStack)] =
                               [top EXCEPT !.pc = "built", !.mesh = main]]
                /\ UNCHANGED waterloggedEntries
        /\ UNCHANGED <<builderModel, builderBlock, builderTransform,
                       builderMesh, notBuilderVars>>

\* the water's createBlockMesh has resolved: createWaterloggedBlockMesh marks
\* the water meshes and returns the group of both
CreateWaterloggedBlockMesh ==
    LET top == callStack[Len(callStack)]
        caller == callStack[Len(callStack) - 1]
    IN  /\ Len(callStack) > 1
        /\ top.pc = "built"
        /\ callStack' =
               [SubSeq(callStack, 1, Len(callStack) - 1) EXCEPT
                   ![Len(callStack) - 1] =
                       [caller EXCEPT
                           !.pc = "built",
                           !.mesh = waterloggedGroup(caller.mesh, top.mesh)]]
        /\ UNCHANGED <<builderModel, builderBlock, builderTransform,
                       waterloggedEntries, builderMesh, notBuilderVars>>

\* the outermost createBlockMesh resolves
CreateBlockMeshReturn ==
    /\ Len(callStack) = 1
    /\ callStack[1].pc = "built"
    /\ builderMesh' = callStack[1].mesh
    /\ callStack' = <<>>
    /\ UNCHANGED <<builderModel, builderBlock, builderTransform,
                   waterloggedEntries, notBuilderVars>>

\* ---- the calls the specification draws its inputs from -----------------

MaxElements == 2

FacePool ==
    {Face("up", "block/stone"), Face("north", "block/stone"),
     Face("up", "block/broken"), Face("top", "block/stone")}

\* elements without faces, with one face and with two
Elements ==
    {<<>>} \cup {<<f>> : f \in FacePool}
    \cup {<<Face("up", "block/stone"), g>> :
            g \in {h \in FacePool : h.direction # "up"}}

BuilderModels == UNION {[1..n -> Elements] : n \in 0..MaxElements}

Waterlogged == {"true", "false", Undefined}

BuilderBlocks ==
    {NoBlock} \cup {blockOf(name, w) : name \in {"oak_fence", "water"},
                                         w \in Waterlogged}

\* no createBlockMesh call has been made yet
StartBuilder ==
    /\ builderModel = <<>>
    /\ builderBlock = NoBlock
    /\ builderTransform = Transform(NoBlock, 0, 0, FALSE)
    /\ callStack = <<>>
    /\ waterloggedEntries = 0
    /\ builderMesh = NoObject

\* createBlockMesh(model, transform, block, biome) is called
CallCreateBlockMesh(model, blockArg, transform) ==
    /\ callStack = <<>>
    /\ builderMesh = NoObject
    /\ builderModel' = model
    /\ builderBlock' = blockArg
    /\ builderTransform' = transform
    /\ callStack' = <<Call(model, blockArg)>>
    /\ UNCHANGED <<waterloggedEntries, builderMesh, notBuilderVars>>

\* the steps of a call that has been made
StepBuilder ==
    \/ CreateBlockMesh
    \/ CreateWaterloggedBlockMesh
    \/ CreateBlockMeshReturn

NextBuilder ==
    \/ \E model \in BuilderModels, blockArg \in BuilderBlocks,
          transformBlock \in {NoBlock, blockOf("oak_fence", "true")} :
          CallCreateBlockMesh(model, blockArg,
                              Transform(transformBlock, 0, 0, FALSE))
    \/ StepBuilder

----------------------------------------------------------------------------
(* Cubane.getBlockMesh, the static parts: one build per entry of the list  *)
(* resolveBlockModel returned, started together and awaited with           *)
(* Promise.all.  A part is the object createBlockMesh returned and the     *)
(* rotations applied to it, in the order they were applied.                *)

\* createBlockMesh, as one value
createBlockMesh(model, transform, blockArg) ==
    IF isWaterlogged(blockDataOf(blockArg, transform.block))
    THEN waterloggedGroup(createBlockMeshNoWater(model, blockArg, transform),
                          createBlockMeshNoWater(waterModel, waterBlock,
                                                 transform))
    ELSE createBlockMeshNoWater(model, blockArg, transform)

\* a model file whose elements is not an array: iterating it throws
Malformed == <<"malformed">>

\* assetLoader.getModel of the model paths the entries name
PartModelFiles ==
    [path \in {"block/post", "block/side", "block/malformed"} |->
        CASE path = "block/post" ->
                 << <<BoxFace(Box(<<6, 0, 6>>, <<10, 16, 10>>), "up",
                              "block/stone"),
                      BoxFace(Box(<<6, 0, 6>>, <<10, 16, 10>>), "north",
                              "block/stone")>> >>
          [] path = "block/side" ->
                 << <<BoxFace(Box(<<7, 12, 0>>, <<9, 15, 9>>), "up",
                              "block/stone")>> >>
          [] OTHER -> Malformed]

StaticPart(object) == [object |-> object, rotations |-> <<>>]

\* the promise of a build that has not completed, and the null a failed
\* build resolves with
Pending == [object |-> NoObject, rotations |-> <<"pending">>]
Null == [object |-> NoObject, rotations |-> <<"null">>]

\* Object3D.rotateY and rotateX: the rotation is composed after those the
\* object already has; angles in degrees
rotateY(part, angle) ==
    [part EXCEPT !.rotations = Append(@, <<"y", angle>>)]

rotateX(part, angle) ==
    [part EXCEPT !.rotations = Append(@, <<"x", angle>>)]

applyBlockstateRotation_xFirst(part, modelData) ==
    LET turnedX == IF modelData.x # 0 THEN rotateX(part, -modelData.x)
                   ELSE part
    IN  IF modelData.y # 0 THEN rotateY(turnedX, -modelData.y) ELSE turnedX

\* the blockstate rotation of an entry: y and then x, each unless zero
applyBlockstateRotation(part, modelData) ==
    LET turnedY == IF modelData.y # 0 THEN rotateY(part, -modelData.y)
                   ELSE part
    IN  IF modelData.x # 0 THEN rotateX(turnedY, -modelData.x) ELSE turnedY

\* the body of the objectPromises callback: the part, or null when the
\* build threw
buildPart(modelData, blockArg) ==
    LET partModel == PartModelFiles[modelData.model]
    IN  IF partModel = Malformed THEN Null
        ELSE applyBlockstateRotation(
                 StaticPart(createBlockMesh(partModel,
                                      Transform(NoBlock, 0, 0,
                                                modelData.uvlock),
                                      blockArg)),
                 modelData)

\* (await Promise.all(objectPromises)).filter(Boolean)
resolvedParts(promises) == SelectSeq(promises, LAMBDA p : p # Null)

MaxParts == 2

ModelDataPool ==
    {[model |-> "block/post", x |-> 0, y |-> 0, uvlock |-> FALSE],
     [model |-> "block/side", x |-> 0, y |-> 90, uvlock |-> TRUE],
     [model |-> "block/side", x |-> 0, y |-> 180, uvlock |-> FALSE],
     [model |-> "block/side", x |-> 90, y |-> 270, uvlock |-> FALSE],
     [model |-> "block/post", x |-> 90, y |-> 0, uvlock |-> FALSE],
     [model |-> "block/malformed", x |-> 0, y |-> 90, uvlock |-> FALSE]}

ModelDataLists == UNION {[1..n -> ModelDataPool] : n \in 1..MaxParts}

PartsBlocks == {blockOf("oak_fence", "false"), blockOf("oak_fence", "true")}

\* no getBlockMesh call has been made yet
StartParts ==
    /\ staticEntries = <<>>
    /\ partsBlock = NoBlock
    /\ objectPromises = <<>>
    /\ settled = <<>>
    /\ rootChildren = <<>>
    /\ partsPc = "idle"

IdleParts == StartParts

\* getBlockMesh up to Promise.all: the list is resolved and a build is
\* started for each entry
GetBlockMeshParts(blockArg, entries) ==
    /\ partsPc = "idle"
    /\ staticEntries' = entries
    /\ partsBlock' = blockArg
    /\ objectPromises' = [i \in 1..Len(entries) |-> Pending]
    /\ partsPc' = "building"
    /\ UNCHANGED <<settled, rootChildren, notPartsVars>>

\* the build of one entry completes, in any order
PartSettles(i) ==
    /\ partsPc = "building"
    /\ i \in 1..Len(objectPromises)
    /\ objectPromises[i] = Pending
    /\ objectPromises' =
           [objectPromises EXCEPT ![i] = buildPart(staticEntries[i],
                                                   partsBlock)]
    /\ settled' = Append(settled, i)
    /\ UNCHANGED <<staticEntries, partsBlock, rootChildren, partsPc,
                   notPartsVars>>

\* Promise.all has resolved: the parts are added to the root group
AddStaticParts ==
    /\ partsPc = "building"
    /\ \A i \in 1..Len(objectPromises) : objectPromises[i] # Pending
    /\ rootChildren' = resolvedParts(objectPromises)
    /\ partsPc' = "done"
    /\ UNCHANGED <<staticEntries, partsBlock, objectPromises, settled,
                   notPartsVars>>

NextParts ==
    \/ \E blockArg \in PartsBlocks, entries \in ModelDataLists :
          GetBlockMeshParts(blockArg, entries)
    \/ \E i \in 1..MaxParts : PartSettles(i)
    \/ AddStaticParts

----------------------------------------------------------------------------
(* ResourcePackManager.saveState and loadState.  The IndexedDB holds the   *)
(* packState record, the configurations of the packs in packOrder, and a   *)
(* blob per pack id; saveState writes the blob of every pack it lists, so  *)
(* that loadState finds a blob for every configuration.  loadState is an   *)
(* async function: between the hash test of loadPackInternal and the point *)
(* where the pack is stored the zip is parsed, and other calls run.  A     *)
(* pack's hash is its content.                                             *)

NoSavedState == [saved |-> FALSE, packs |-> <<>>]

NoLoadState == [pc |-> "idle", packs |-> <<>>, index |-> 0]

LoadStateCalls == {1, 2}

MaxLoadStates == 2

\* what neither the manager nor the database touches
storeFrame ==
    UNCHANGED <<resolveVars, modelVars, textureVars, atlasVars, cacheVars,
                builderVars, mergeVars, partsVars, rebuildVars,
                resourcePackOrder, blockMeshCache, stringCall, meshCall,
                loadComplete>>

\* saveState: the configurations in the order of packOrder
SaveState ==
    /\ ~rebuilding
    /\ Range(packOrder) \subseteq DOMAIN packs
    /\ savedState' =
           [saved |-> TRUE,
            packs |-> [i \in 1..Len(packOrder) |->
                          [id |-> packOrder[i],
                           priority |-> packs[packOrder[i]].priority,
                           enabled |-> packs[packOrder[i]].enabled]]]
    /\ UNCHANGED <<packVars, loadStateCalls, loadStatesMade>>
    /\ storeFrame

\* loadState up to the loop: without a saved state it returns false,
\* otherwise a batch is begun
LoadStateBegin(call) ==
    /\ ~rebuilding
    /\ loadStateCalls[call].pc = "idle"
    /\ loadStatesMade < MaxLoadStates
    /\ loadStatesMade' = loadStatesMade + 1
    /\ IF savedState.saved
       THEN /\ batchUpdateDepth' = batchUpdateDepth + 1
            /\ loadStateCalls' =
                   [loadStateCalls EXCEPT
                       ![call] = [pc |-> "check", packs |-> savedState.packs,
                                  index |-> 1]]
       ELSE UNCHANGED <<batchUpdateDepth, loadStateCalls>>
    /\ UNCHANGED <<packs, packKeys, packOrder, autoRebuild, pendingRebuild,
                   rebuilding, stringCache, savedState>>
    /\ noteChange
    /\ storeFrame

\* the next configuration of the loop, up to the hash test of
\* loadPackInternal: a configuration whose content is loaded is passed over
LoadStateCheck(call) ==
    LET state == loadStateCalls[call]
        packConfig == state.packs[state.index]
        loaded == \E id \in DOMAIN packs :
                      PackContent(id) = PackContent(packConfig.id)
    IN  /\ state.pc = "check"
        /\ state.index <= Len(state.packs)
        /\ loadStateCalls' =
               [loadStateCalls EXCEPT
                   ![call] =
                       IF loaded
                       THEN [state EXCEPT !.index = @ + 1]
                       ELSE [state EXCEPT !.pc = "store"]]
        /\ UNCHANGED <<packVars, savedState, loadStatesMade>>
        /\ storeFrame

\* the rest of loadPackInternal: the pack is stored under the saved id with
\* the saved priority and enabled state, and inserted into packOrder
LoadStateStore(call) ==
    LET state == loadStateCalls[call]
        packConfig == state.packs[state.index]
        added == [id \in DOMAIN packs \cup {packConfig.id} |->
                    IF id = packConfig.id
                    THEN [priority |-> packConfig.priority,
                          enabled |-> packConfig.enabled]
                    ELSE packs[id]]
    IN  /\ state.pc = "store"
        /\ packs' = added
        /\ packKeys' = IF packConfig.id \in Range(packKeys) THEN packKeys
                       ELSE Append(packKeys, packConfig.id)
        /\ packOrder' = insertPackByPriority(added, packOrder, packConfig.id,
                                             packConfig.priority)
        /\ triggerRebuildIfNeeded
        /\ loadStateCalls' =
               [loadStateCalls EXCEPT
                   ![call] = [state EXCEPT !.pc = "check", !.index = @ + 1]]
        /\ UNCHANGED <<autoRebuild, batchUpdateDepth, savedState,
                       loadStatesMade>>
        /\ noteChange
        /\ storeFrame

\* the loop is over: endBatchUpdate, and loadState returns true
LoadStateEnd(call) ==
    LET state == loadStateCalls[call]
    IN  /\ state.pc = "check"
        /\ state.index > Len(state.packs)
        /\ batchUpdateDepth' = Max(0, batchUpdateDepth - 1)
        /\ IF batchUpdateDepth' = 0 /\ pendingRebuild
           THEN pendingRebuild' = FALSE /\ triggerRebuild
           ELSE UNCHANGED <<pendingRebuild, stringCache, rebuilding>>
        /\ loadStateCalls' = [loadStateCalls EXCEPT ![call] = NoLoadState]
        /\ UNCHANGED <<packs, packKeys, packOrder, autoRebuild, savedState,
                       loadStatesMade>>
        /\ noteChange
        /\ storeFrame

\* no database yet and no loadState call
StartStore ==
    /\ savedState = NoSavedState
    /\ loadStateCalls = [call \in LoadStateCalls |-> NoLoadState]
    /\ loadStatesMade = 0

IdleStore == StartStore

\* the arrays that hold every loaded pack id once
LoadedPermutations ==
    {packIds \in [1..Cardinality(DOMAIN packs) -> DOMAIN packs] :
        Range(packIds) = DOMAIN packs}

\* the manager's operations on its order, reorderPacks and importConfig
\* with permutations of the loaded ids only.  The id loadPackFromBlob
\* generates is new, so that a load of this kind is not in the way of a
\* loadState call in flight.
StoreOperations ==
    \/ \E packId \in PackIds :
          /\ \A call \in LoadStateCalls : loadStateCalls[call].pc = "idle"
          /\ LoadPack(packId)
    \/ \E packId \in PackIds : RemovePack(packId)
    \/ \E packId \in PackIds : MovePackUp(packId)
    \/ \E packIds \in LoadedPermutations : ReorderPacks(packIds)
    \/ \E packIds \in LoadedPermutations :
          ImportConfig([i \in 1..Len(packIds) |->
                           [id |-> packIds[i], priority |-> i - 1,
                            enabled |-> TRUE]])
    \/ RebuildDone

NextStore ==
    \/ StoreOperations
    \/ SaveState
    \/ \E call \in LoadStateCalls : LoadStateBegin(call)
    \/ \E call \in LoadStateCalls : LoadStateCheck(call)
    \/ \E call \in LoadStateCalls : LoadStateStore(call)
    \/ \E call \in LoadStateCalls : LoadStateEnd(call)

----------------------------------------------------------------------------
(* ResourcePackManager.triggerRebuild with its events and callbacks.  Both *)
(* callbacks are set, as Cubane's constructor and AssetLoader.setPackManager*)
(* do.  A pack operation is followed from its call to the settling of the  *)
(* promise it returned; events holds what its triggerRebuild emitted and   *)
(* called, in order.                                                       *)

RebuildSlots == {1, 2}

\* removePack stands for the operations that end with
\* `await this.triggerRebuildIfNeeded(...)`
PackOperations ==
    {"removePack", "endBatchUpdate", "rebuildAtlas", "importConfig",
     "loadState"}

NoRebuildCall ==
    [operation |-> "none", events |-> <<>>, atlas |-> "none",
     result |-> "none"]

\* triggerRebuild up to `await this.onAtlasRebuildNeeded()`: the two events
\* are emitted and the atlas-rebuild callback is called
triggerRebuildStarted(operation) ==
    [operation |-> operation,
     events |-> <<"packsChanged", "atlasRebuilding", "atlasRebuild">>,
     atlas |-> "running", result |-> "pending"]

\* an operation that returned without a rebuild
settledWithoutRebuild(operation) ==
    [operation |-> operation, events |-> <<>>, atlas |-> "none",
     result |-> IF operation = "loadState" THEN "true" ELSE "resolved"]

atlasRebuildSettled_meshAlways(call, outcome) ==
    [call EXCEPT
        !.atlas = outcome,
        !.events = Append(@, "meshRebuild"),
        !.result = IF outcome = "resolved"
                   THEN (IF call.operation = "loadState" THEN "true"
                         ELSE "resolved")
                   ELSE (IF call.operation = "loadState" THEN "false"
                         ELSE "rejected")]

\* the rest of triggerRebuild and of the operation that awaits it: after a
\* rebuild that resolved the mesh-rebuild callback is called; a rejection
\* passes through every await up to the caller, except in loadState, whose
\* try/catch turns it into false
atlasRebuildSettled(call, outcome) ==
    IF outcome = "resolved"
    THEN [call EXCEPT
             !.atlas = "resolved",
             !.events = Append(@, "meshRebuild"),
             !.result = IF call.operation = "loadState" THEN "true"
                        ELSE "resolved"]
    ELSE [call EXCEPT
             !.atlas = "rejected",
             !.result = IF call.operation = "loadState" THEN "false"
                        ELSE "rejected"]

\* whether an atlas rebuild is in flight in the calls
anyRebuilding(calls) == \E slot \in RebuildSlots : calls[slot].atlas = "running"

rebuildFrame ==
    UNCHANGED <<resolveVars, modelVars, textureVars, atlasVars, cacheVars,
                builderVars, mergeVars, partsVars, storeVars, packs, packKeys,
                packOrder, resourcePackOrder, stringCall, meshCall,
                loadComplete, batchChanged>>

\* the operation runs up to the first await of its triggerRebuild, or to its
\* end when it does not rebuild; restored tells whether loadState stored a
\* pack
CallPackOperation(slot, operation, restored) ==
    LET inBatch == operation \in {"importConfig", "loadState"}
        pending == pendingRebuild \/ (operation = "loadState" /\ restored)
        rebuilds ==
            CASE operation = "removePack" ->
                     batchUpdateDepth = 0 /\ autoRebuild
              [] operation = "rebuildAtlas" -> TRUE
              [] operation = "endBatchUpdate" ->
                     Max(0, batchUpdateDepth - 1) = 0 /\ pendingRebuild
              [] OTHER -> batchUpdateDepth = 0 /\ pending
    IN  /\ rebuildCalls[slot].atlas # "running"
        /\ operation = "loadState" \/ ~restored
        /\ batchUpdateDepth' =
               IF operation = "endBatchUpdate"
               THEN Max(0, batchUpdateDepth - 1) ELSE batchUpdateDepth
        /\ pendingRebuild' =
               CASE operation = "removePack" ->
                        IF rebuilds THEN pendingRebuild ELSE TRUE
                 [] operation = "rebuildAtlas" -> pendingRebuild
                 [] OTHER -> IF rebuilds THEN FALSE ELSE pending
        /\ rebuildCalls' =
               [rebuildCalls EXCEPT
                   ![slot] = IF rebuilds THEN triggerRebuildStarted(operation)
                             ELSE settledWithoutRebuild(operation)]
        /\ stringCache' = IF rebuilds THEN NoEntry ELSE stringCache
        /\ rebuilding' = anyRebuilding(rebuildCalls')
        /\ UNCHANGED <<autoRebuild, blockMeshCache>>
        /\ rebuildFrame

\* beginBatchUpdate and setAutoRebuild return at once
BeginBatch28 ==
    /\ batchUpdateDepth < MaxBatchDepth
    /\ batchUpdateDepth' = batchUpdateDepth + 1
    /\ UNCHANGED <<autoRebuild, pendingRebuild, rebuilding, stringCache,
                   blockMeshCache, rebuildCalls>>
    /\ rebuildFrame

SetAutoRebuild28(enabled) ==
    /\ autoRebuild # enabled
    /\ autoRebuild' = enabled
    /\ UNCHANGED <<batchUpdateDepth, pendingRebuild, rebuilding, stringCache,
                   blockMeshCache, rebuildCalls>>
    /\ rebuildFrame

\* rebuildFromPackManager settles: triggerRebuild goes on, or the rejection
\* goes up
AtlasRebuildSettles(slot, outcome) ==
    /\ rebuildCalls[slot].atlas = "running"
    /\ rebuildCalls' =
           [rebuildCalls EXCEPT
               ![slot] = atlasRebuildSettled(rebuildCalls[slot], outcome)]
    /\ blockMeshCache' =
           IF "meshRebuild" \in Range(rebuildCalls'[slot].events)
           THEN NoEntry ELSE blockMeshCache
    /\ rebuilding' = anyRebuilding(rebuildCalls')
    /\ UNCHANGED <<autoRebuild, batchUpdateDepth, pendingRebuild,
                   stringCache>>
    /\ rebuildFrame

StartRebuild == rebuildCalls = [slot \in RebuildSlots |-> NoRebuildCall]

IdleRebuild == StartRebuild

NextRebuild ==
    \/ \E slot \in RebuildSlots, operation \in PackOperations,
          restored \in BOOLEAN : CallPackOperation(slot, operation, restored)
    \/ BeginBatch28
    \/ \E enabled \in BOOLEAN : SetAutoRebuild28(enabled)
    \/ \E slot \in RebuildSlots, outcome \in {"resolved", "rejected"} :
          AtlasRebuildSettles(slot, outcome)

----------------------------------------------------------------------------
(* The specifications: each starts one component and leaves the others idle *)

IdlePacks == StartPacks

IdleCache == StartCache

IdleBuilder == StartBuilder

IdleAtlas ==
    /\ atlasSize = 2048
    /\ padding = 1
    /\ atlasTextures = <<>>
    /\ packingResults = <<>>
    /\ atlasCanvas = <<>>
    /\ uvMap = NoUvMap
    /\ apc = "idle"

IdleTexture ==
    /\ textureModel = EmptyModel
    /\ textureRef = Absent
    /\ texturePath = Absent
    /\ tpc = "idle"

IdleResolve ==
    /\ block = Block("stone", <<>>)
    /\ blockstateFile = File("missing", EmptyDefinition)
    /\ pc = "idle"
    /\ models = <<>>
    /\ threw = FALSE
    /\ mesh = NoMesh

IdleModel ==
    /\ modelFiles = [path \in {"block/broken"} |-> MissingFile]
    /\ modelArg = Absent
    /\ modelJson = EmptyModel
    /\ mpc = "idle"

IdleMerge ==
    /\ mergeFiles = <<>>
    /\ mergeModel = EmptyModel
    /\ mergeCurrent = EmptyModel
    /\ mergePath = Absent
    /\ mergeDepth = 0
    /\ loadedParents = <<>>
    /\ lpc = "done"
    /\ mergeResult = EmptyModel

InitResolve == StartResolve /\ IdleModel /\ IdleTexture /\ IdleAtlas /\ IdlePacks /\ IdleCache /\ IdleBuilder /\ IdleMerge /\ IdleParts /\ IdleStore /\ IdleRebuild

SpecResolve == InitResolve /\ [][NextResolve]_vars

InitModel == StartModel /\ IdleResolve /\ IdleTexture /\ IdleAtlas /\ IdlePacks /\ IdleCache /\ IdleBuilder /\ IdleMerge /\ IdleParts /\ IdleStore /\ IdleRebuild

SpecModel == InitModel /\ [][NextModel]_vars

InitTexture == StartTexture /\ IdleResolve /\ IdleModel /\ IdleAtlas /\ IdlePacks /\ IdleCache /\ IdleBuilder /\ IdleMerge /\ IdleParts /\ IdleStore /\ IdleRebuild

SpecTexture == InitTexture /\ [][NextTexture]_vars

InitAtlas == StartAtlas /\ IdleResolve /\ IdleModel /\ IdleTexture /\ IdlePacks /\ IdleCache /\ IdleBuilder /\ IdleMerge /\ IdleParts /\ IdleStore /\ IdleRebuild

SpecAtlas == InitAtlas /\ [][NextAtlas]_vars

InitPacks ==
    StartPacks /\ IdleResolve /\ IdleModel /\ IdleTexture /\ IdleAtlas /\ IdleCache /\ IdleBuilder /\ IdleMerge /\ IdleParts /\ IdleStore /\ IdleRebuild

SpecPacks == InitPacks /\ [][NextPacks]_vars

SpecLegacy == InitPacks /\ [][NextLegacy]_vars

SpecManager == InitPacks /\ [][NextManager]_vars

\* the manager with its database
SpecStore == InitPacks /\ [][NextStore]_vars

\* the manager's rebuilds, followed through their callbacks
SpecRebuild == InitPacks /\ [][NextRebuild]_vars

InitCache ==
    /\ StartCache /\ IdleResolve /\ IdleModel /\ IdleTexture /\ IdleAtlas
    /\ IdlePacks /\ IdleBuilder /\ IdleMerge /\ IdleParts /\ IdleStore /\ IdleRebuild

SpecCache == InitCache /\ [][NextCache]_vars

InitMerge ==
    /\ StartMerge /\ IdleResolve /\ IdleModel /\ IdleTexture /\ IdleAtlas
    /\ IdlePacks /\ IdleCache /\ IdleBuilder /\ IdleParts /\ IdleStore /\ IdleRebuild

SpecMerge == InitMerge /\ [][NextMerge]_vars

\* loadAndMergeModel is an async function: each awaited getResourceString
\* settles, and the function is then resumed
FairMerge == SpecMerge /\ WF_vars(NextMerge)

\* ---- calls with elements of several sizes and a blockstate rotation -----

GeometryBoxes ==
    {FullBox, Box(<<0, 0, 0>>, <<8, 16, 8>>), Box(<<0, 0, 0>>, <<16, 8, 16>>)}

\* elements with an up face, or an up and a north face
GeometryElements ==
    UNION {{<<BoxFace(box, "up", "block/stone")>>,
            <<BoxFace(box, "up", "block/dirt")>>,
            <<BoxFace(box, "up", "block/stone"),
              BoxFace(box, "north", "block/stone")>>} : box \in GeometryBoxes}

GeometryModels == UNION {[1..n -> GeometryElements] : n \in 1..MaxElements}

GeometryBlocks ==
    {NoBlock, blockOf("water", Undefined), blockOf("oak_fence", "true")}

\* the x, y and uvlock a blockstate entry can carry
Transforms ==
    {Transform(NoBlock, 0, 0, FALSE), Transform(NoBlock, 0, 90, FALSE),
     Transform(NoBlock, 90, 180, FALSE), Transform(NoBlock, 90, 270, FALSE),
     Transform(NoBlock, 0, 90, TRUE)}

NextGeometry ==
    \/ \E model \in GeometryModels, blockArg \in GeometryBlocks,
          transform \in Transforms :
          CallCreateBlockMesh(model, blockArg, transform)
    \/ StepBuilder

InitBuilder ==
    /\ StartBuilder /\ IdleResolve /\ IdleModel /\ IdleTexture /\ IdleAtlas
    /\ IdlePacks /\ IdleCache /\ IdleMerge /\ IdleParts /\ IdleStore /\ IdleRebuild

SpecBuilder == InitBuilder /\ [][NextBuilder]_vars

SpecGeometry == InitBuilder /\ [][NextGeometry]_vars

InitParts ==
    /\ StartParts /\ IdleResolve /\ IdleModel /\ IdleTexture /\ IdleAtlas
    /\ IdlePacks /\ IdleCache /\ IdleBuilder /\ IdleMerge /\ IdleStore /\ IdleRebuild

SpecParts == InitParts /\ [][NextParts]_vars

\* an async function whose awaited promises have settled is resumed by the
\* event loop: a call that has been made and can take its next step
\* eventually takes it
FairBuilder == SpecBuilder /\ WF_vars(StepBuilder)

----------------------------------------------------------------------------
----------------------------------------------------------------------------
(* Claims about the blockstate resolver and the fallback mesh *)

\* resolveBlockModel has returned (a pure block entity never calls it)
Resolved == pc \in {"resolved", "done"} /\ block.name \notin PureBlockEntities

RegularBlock ==
    block.name \notin (LiquidNames \cup PureBlockEntities \cup HybridBlocks)

definition == getBlockState(blockstateFile)

VariantsOnly ==
    ~definition.isNull /\ definition.hasVariants /\ ~definition.hasMultipart

PermutationsOf(s) == InjSeqs(Range(s), Len(s), Len(s))

\* C1: for a variants-only definition, resolveBlockModel returns the same
\* list of (model, x, y, uvlock) tuples for every insertion order of the
\* block's property map.
C1_OrderInsensitive ==
    (Resolved /\ VariantsOnly /\ block.name \notin LiquidNames) =>
        \A perm \in PermutationsOf(block.properties) :
            resolveBlockModel(Block(block.name, perm), blockstateFile).models
                = models

\* a block whose two variant-relevant properties were inserted in unsorted
\* order and whose sorted key is a key of the definition
C1_Witness ==
    /\ Resolved /\ VariantsOnly /\ RegularBlock
    /\ Len(block.properties) = 2
    /\ buildVariantKey(definition.variants, block.properties) # block.properties
    /\ Len(buildVariantKey(definition.variants, block.properties)) = 2
    /\ variantIndex(definition.variants,
                    buildVariantKey(definition.variants, block.properties)) # 0
    /\ Len(models) = 1

\* the set of name=value strings of the block that name a variant property
RelevantPairs ==
    {p \in Range(block.properties) :
        \E i \in 1..Len(definition.variants) :
            \E part \in Range(definition.variants[i].key) : part[1] = p[1]}

\* a key spells the block's filtered, sorted variant key
IsComputedKey(key) ==
    /\ Range(key) = RelevantPairs
    /\ Len(key) = Cardinality(RelevantPairs)
    /\ \A i, j \in 1..Len(key) : i < j => PairLess(key[i], key[j])

\* C2: when no variant key equals the block's filtered, sorted variant key
\* and the definition has the key "", the "" entry is the result, never a
\* best-partial, single-property or first-key entry.
C2_EmptyKeyFallback ==
    (/\ Resolved /\ RegularBlock /\ ~definition.isNull /\ definition.hasVariants
     /\ \A i \in 1..Len(definition.variants) :
            ~IsComputedKey(definition.variants[i].key)
     /\ \E i \in 1..Len(definition.variants) : definition.variants[i].key = <<>>)
    => \E i \in 1..Len(definition.variants) :
          /\ definition.variants[i].key = <<>>
          /\ Len(models) >= 1
          /\ models[1].model =
                (IF definition.variants[i].isArray
                 THEN definition.variants[i].value[1].model
                 ELSE definition.variants[i].value.model)

\* facing=east against keys facing=north, facing=south and "": the result is
\* the "" entry although facing=north comes first
C2_Witness ==
    /\ Resolved /\ RegularBlock /\ VariantsOnly
    /\ block.properties = <<<<"facing", "east">>>>
    /\ Len(definition.variants) = 3
    /\ definition.variants[1].key = <<<<"facing", "north">>>>
    /\ definition.variants[2].key = <<<<"facing", "south">>>>
    /\ definition.variants[3].key = <<>>
    /\ ~definition.variants[3].isArray
    /\ models = <<createModelData(definition.variants[3].value)>>

\* the claim's reading of a condition map: every entry names a property the
\* block defines, with a value among the expected alternatives
MapMatches(condition) ==
    \A e \in Range(condition) :
        \E p \in Range(block.properties) :
            p[1] = e.property /\ p[2] \in Range(e.value)

RuleMatches(rule) ==
    \/ rule.when.kind = "none"
    \/ rule.when.kind = "OR" /\ \E c \in Range(rule.when.OR) : MapMatches(c)
    \/ rule.when.kind = "map" /\ MapMatches(rule.when.map)

MatchingRules ==
    {i \in 1..Len(definition.multipart) : RuleMatches(definition.multipart[i])}

\* the n-th matching rule in declaration order
NthMatching(n) ==
    CHOOSE i \in MatchingRules : Cardinality({j \in MatchingRules : j <= i}) = n

FromVariants ==
    IF definition.hasVariants
    THEN Len(variantModels(definition.variants, block.properties)) ELSE 0

\* C3: the multipart part of the output is the declaration-ordered
\* subsequence of the rules whose condition matches, one model per rule
\* (element 0 of a list `apply`).
C3_MultipartSubsequence ==
    (/\ Resolved /\ RegularBlock /\ ~definition.isNull
     /\ definition.hasMultipart /\ definition.multipartIterable)
    => /\ Len(models) = FromVariants + Cardinality(MatchingRules)
       /\ \A n \in 1..Cardinality(MatchingRules) :
            LET rule == definition.multipart[NthMatching(n)]
                holder == IF rule.isArray THEN rule.apply[1] ELSE rule.apply
            IN  models[FromVariants + n] =
                    [model |-> holder.model, x |-> holder.x, y |-> holder.y,
                     uvlock |-> holder.uvlock]

\* two rules, the first one fails on a property the block lacks or on its
\* value, the second one matches through a "|" alternative
C3_Witness ==
    /\ Resolved /\ RegularBlock
    /\ definition.hasMultipart /\ ~definition.hasVariants
    /\ Len(definition.multipart) = 2
    /\ MatchingRules = {2}
    /\ definition.multipart[2].when.kind = "map"
    /\ \E e \in Range(definition.multipart[2].when.map) : Len(e.value) > 1
    /\ Len(models) = 1

NoUsableDefinition ==
    \/ blockstateFile.status \in {"missing", "unparsable"}
    \/ blockstateFile.doc.isNull
    \/ ~blockstateFile.doc.hasVariants /\ ~blockstateFile.doc.hasMultipart

----------------------------------------------------------------------------
(* Claims about getModel *)

\* the file of the n-th model of the requested model's parent chain
RECURSIVE NthFile(_)
NthFile(n) ==
    IF n = 0 THEN modelFile(modelFiles, stripNamespace(modelArg).name)
    ELSE LET below == NthFile(n - 1) IN
         IF below.status = "ok" /\ below.doc.parent.kind = "lit"
         THEN modelFile(modelFiles, stripNamespace(below.doc.parent).name)
         ELSE MissingFile

\* the requested model has exactly n ancestors and all of them are present
CompleteChain(n) ==
    /\ \A i \in 0..n : NthFile(i).status = "ok"
    /\ \A i \in 0..(n - 1) : NthFile(i).doc.parent.kind = "lit"
    /\ NthFile(n).doc.parent.kind # "lit"

\* the value of texture key k in the nearest model of the chain defining it
NearestTexture(n, k) ==
    IF \E i \in 0..n : NthFile(i).doc.hasTextures
                        /\ NthFile(i).doc.textures[k] # Absent
    THEN LET i == CHOOSE i \in 0..n :
                    /\ NthFile(i).doc.hasTextures
                    /\ NthFile(i).doc.textures[k] # Absent
                    /\ \A j \in 0..(i - 1) :
                          ~(NthFile(j).doc.hasTextures
                            /\ NthFile(j).doc.textures[k] # Absent)
         IN  NthFile(i).doc.textures[k]
    ELSE Absent

\* the result carries the elements of the nearest model that has any
NearestElements(n) ==
    IF \E i \in 0..n : NthFile(i).doc.hasElements
    THEN LET i == CHOOSE i \in 0..n :
                    /\ NthFile(i).doc.hasElements
                    /\ \A j \in 0..(i - 1) : ~NthFile(j).doc.hasElements
         IN  modelJson.hasElements /\ modelJson.elements = NthFile(i).doc.elements
    ELSE ~modelJson.hasElements

Merged(n) ==
    /\ \A k \in TextureKeys : modelJson.textures[k] = NearestTexture(n, k)
    /\ NearestElements(n)
    /\ ~modelJson.hasParent

LiquidPath ==
    \/ startsWithWater(stripNamespace(modelArg).name)
    \/ startsWithLava(stripNamespace(modelArg).name)

----------------------------------------------------------------------------
(* Claims about resolveTexture *)

\* the value the chain of textureRef holds after n lookups in the table
RECURSIVE AfterLookups(_)
AfterLookups(n) ==
    IF n = 0 THEN textureRef
    ELSE LET before == AfterLookups(n - 1) IN
         IF before.kind # "ref" THEN before
         ELSE IF before.name \in DOMAIN textureModel.textures
         THEN textureModel.textures[before.name]
         ELSE Absent

KeyReference ==
    textureRef.kind = "ref" /\ textureRef # Ref("missing")
    /\ textureModel.hasTextures

\* C7 as stated: a "#key" reference whose chain reaches a literal within 5
\* lookups resolves to that literal without its namespace; an empty
\* reference, "#missing", an undefined key, a model without textures and a
\* self-referential or longer chain resolve to block/missing_texture
C7_Original ==
    tpc = "done" =>
        /\ (KeyReference /\ \E n \in 1..5 : AfterLookups(n).kind = "lit")
              => texturePath = stripNamespace(AfterLookups(5))
        /\ (textureRef.kind \in {"absent", "empty"} \/ textureRef = Ref("missing"))
              => texturePath = MissingTexture
        /\ (textureRef.kind = "ref" /\ ~textureModel.hasTextures)
              => texturePath = MissingTexture
        /\ (KeyReference /\ AfterLookups(5).kind # "lit")
              => texturePath = MissingTexture

----------------------------------------------------------------------------
(* Claims about the atlas *)

\* the pixels a drawImage call covers
Pixels(draw) ==
    {<<px, py>> : px \in draw.x..(draw.x + draw.image.width - 1),
                  py \in draw.y..(draw.y + draw.image.height - 1)}

OriginalImage(path) ==
    LET i == CHOOSE i \in 1..Len(atlasTextures) : atlasTextures[i].path = path
    IN  atlasTextures[i].image

\* the packing of one strategy, drawn: rects as stated, no overlap
WellPacked(packed) ==
    LET drawn == createAtlasCanvas(packed, atlasSize) IN
    /\ \A i \in 1..Len(packed) :
          /\ drawn.canvas[i].image = OriginalImage(packed[i].path)
          /\ drawn.uvMap[packed[i].path] =
                [u |-> Quotient(drawn.canvas[i].x, atlasSize),
                 v |-> Quotient(drawn.canvas[i].y, atlasSize),
                 width |-> Quotient(OriginalImage(packed[i].path).width,
                                    atlasSize),
                 height |-> Quotient(OriginalImage(packed[i].path).height,
                                     atlasSize)]
    /\ \A i, j \in 1..Len(packed) :
          i # j => Pixels(drawn.canvas[i]) \cap Pixels(drawn.canvas[j]) = {}

\* C8: after packing textures of distinct paths, under each of the five
\* strategies every placed path's UVRect is its drawn position and its
\* original image's size over atlasSize, and no two drawn images overlap;
\* the atlas returned is the drawing of one of the five
C8_AtlasRects ==
    apc = "done" =>
        /\ \A s \in 1..Len(Strategies) :
              WellPacked(packingResults[s].packedTextures)
        /\ \E s \in 1..Len(Strategies) :
              LET drawn == createAtlasCanvas(packingResults[s].packedTextures,
                                             atlasSize)
              IN  atlasCanvas = drawn.canvas /\ uvMap = drawn.uvMap

\* three textures placed, beside and below one another, in an order that is
\* not the order they were given in
C8_Witness ==
    /\ apc = "done" /\ Len(atlasTextures) = 3 /\ Len(atlasCanvas) = 3
    /\ padding = 1
    /\ \E i \in 1..3 : atlasCanvas[i].x > 0 /\ atlasCanvas[i].y = 0
    /\ \E i \in 1..3 : atlasCanvas[i].y > 0
    /\ DOMAIN uvMap = {atlasTextures[i].path : i \in 1..3}
    /\ uvMap[atlasTextures[1].path].u # Quotient(0, atlasSize)

----------------------------------------------------------------------------
(* Claims about the caches *)

\* C9 as stated: once a pack operation has completed, and no rebuild is owed
\* to a batch or to autoRebuild being off, the block mesh cache holds no mesh
\* built from resources other than those of the packs now in force
C9_Original ==
    (~rebuilding /\ ~pendingRebuild /\ blockMeshCache # NoEntry)
        => blockMeshCache = currentContent

\* C10 as stated: getResourceString and getResourceBlob return what the
\* highest-priority pack in force that holds the path held when the call was
\* made, undefined if there was none, never an older cached value
C10_Original ==
    stringCall.pc = "done" => stringCall.content = stringCall.expected

\* what two meshes are compared by: the parts with their vertex and index
\* counts (and, for a text plane, the text drawn on it)
geometry(object) == object.children

C15_Original == \A key \in CacheKeys : computations[key] <= 1

----------------------------------------------------------------------------
(* Claims about the mesh builder *)

\* the outermost createBlockMesh call has resolved
BuilderDone == callStack = <<>> /\ builderMesh # NoObject

WaterloggedInput ==
    LET blockData ==
            IF builderBlock # NoBlock THEN builderBlock
            ELSE builderTransform.block
    IN  blockData # NoBlock /\ blockData.waterlogged = "true"

IsPlaceholder(object) ==
    /\ object.type = "Mesh"
    /\ object.material.wireframe
    /\ object.children = <<>>

\* a water mesh as the claim describes it, built from the six faces of a cube
IsWaterMesh(object) ==
    /\ object.type = "Group"
    /\ "isWater" \in object.custom
    /\ {object.children[i].materialKey[2] : i \in 1..Len(object.children)}
           = Directions
    /\ \A i \in 1..Len(object.children) :
           LET child == object.children[i]
           IN  /\ child.type = "Mesh"
               /\ child.vertices = 4
               /\ "isWater" \in child.userData
               /\ child.renderOrder = 1
               /\ child.material.transparent
               /\ ~child.material.depthWrite

C12_Composite ==
    /\ waterloggedEntries <= 1
    /\ \A i \in 2..Len(callStack) : ~(callStack[i].pc = "water")
    /\ BuilderDone /\ WaterloggedInput =>
           /\ builderMesh.type = "Group"
           /\ Len(builderMesh.children) >= 2
           /\ "isWaterlogged" \in builderMesh.custom
           /\ \/ IsPlaceholder(builderMesh.children[1])
              \/ /\ builderMesh.children[1].type = "Group"
                 /\ builderMesh.children[1].children # <<>>
                 /\ "isWaterlogged" \notin builderMesh.children[1].custom
           /\ IsWaterMesh(builderMesh.children[2])

MainMesh ==
    IF WaterloggedInput THEN builderMesh.children[1] ELSE builderMesh

\* the elements whose geometry construction does not throw
EmittedElements ==
    {i \in 1..Len(builderModel) :
        \A j \in 1..Len(builderModel[i]) :
            builderModel[i][j].direction \in Directions}

SkippedElements == (1..Len(builderModel)) \ EmittedElements

\* the faces of the emitted elements, as <<element, face>> positions
EmittedFaces ==
    {<<i, j>> \in EmittedElements \X (1..4) : j <= Len(builderModel[i])}

----------------------------------------------------------------------------
(* Further claims about the blockstate resolver *)

\* the value of the block's level property, Undefined without one
LevelOfBlock ==
    IF \E i \in 1..Len(block.properties) : block.properties[i][1] = "level"
    THEN (CHOOSE pair \in Range(block.properties) : pair[1] = "level")[2]
    ELSE Undefined

\* the model path the claim names for a liquid and a level
LiquidModelPath ==
    LET water == block.name \in {"water", "flowing_water"}
    IN  CASE LevelOfBlock \in {Undefined, "0"} ->
                 IF water THEN "block/water" ELSE "block/lava"
          [] LevelOfBlock = "3" ->
                 IF water THEN "block/water_level_3" ELSE "block/lava_level_3"
          [] LevelOfBlock = "15" ->
                 IF water THEN "block/water_level_15"
                 ELSE "block/lava_level_15"

\* C14: for water, flowing_water, lava and flowing_lava, resolveBlockModel
\* does not consult the blockstate definition and returns exactly one entry
\* with x = 0, y = 0, uvlock = false and the model block/water or block/lava
\* for level 0 or no level, block/<liquid>_level_<n> for a level n > 0.
C14_LiquidBypass ==
    (Resolved /\ block.name \in LiquidNames) =>
        /\ ~threw
        /\ models = <<[model |-> LiquidModelPath, x |-> 0, y |-> 0,
                        uvlock |-> FALSE]>>

C14_Witness ==
    /\ Resolved
    /\ block.name = "flowing_water"
    /\ LevelOfBlock = "3"
    /\ definition.hasVariants
    /\ models[1].model = "block/water_level_3"

----------------------------------------------------------------------------
(* Claims about the pack manager *)

\* getAllPacks: the infos in packOrder, here their priorities
getAllPacks == [i \in 1..Len(packOrder) |-> packs[packOrder[i]].priority]

\* getEnabledPacks: the same without the disabled packs
RECURSIVE enabledPriorities(_)
enabledPriorities(order) ==
    IF order = <<>> THEN <<>>
    ELSE (IF packs[Head(order)].enabled
          THEN <<packs[Head(order)].priority>> ELSE <<>>)
         \o enabledPriorities(Tail(order))

getEnabledPacks == enabledPriorities(packOrder)

NonDecreasing(s) == \A i \in 1..(Len(s) - 1) : s[i] <= s[i + 1]

\* packOrder as every operation but a repeated id in reorderPacks leaves it
ListsEachOnce ==
    /\ Range(packOrder) \subseteq DOMAIN packs
    /\ \A i, j \in 1..Len(packOrder) : i # j => packOrder[i] # packOrder[j]

\* C16: after any sequence of manager operations getAllPacks and
\* getEnabledPacks return the packs in non-decreasing order of priority.
\* Stated for the states in which no pack is listed twice.
C16_Original ==
    (~rebuilding /\ ListsEachOnce) =>
        NonDecreasing(getAllPacks) /\ NonDecreasing(getEnabledPacks)

\* the rebuild callbacks are invoked in this step
RebuildInvoked == ~rebuilding /\ rebuilding'

\* C17: between beginBatchUpdate and the matching outermost endBatchUpdate
\* no operation on the packs invokes the rebuild, and the step that ends the
\* outermost batch invokes it when a pack change occurred during the batch.
\* (importConfig and removeAllPacks are batches of their own.)
C17_Original ==
    [][/\ (batchUpdateDepth > 0 /\ batchUpdateDepth' > 0 /\ ~RebuildAtlas)
            => ~RebuildInvoked
       /\ (batchUpdateDepth = 1 /\ batchUpdateDepth' = 0 /\ batchChanged)
            => RebuildInvoked
       /\ (/\ batchUpdateDepth = 0
           /\ RemoveAllPacks \/ \E config \in Configs : ImportConfig(config)
           /\ packs' # packs \/ packOrder' # packOrder)
            => RebuildInvoked]_vars

\* C18: when a loadPackFrom... call resolves with id p, getPack(p) is not
\* null, p occurs in getAllPacks and the loadComplete event carries the info
\* whose id is p, also for content that is already loaded.
C18_Original ==
    loadComplete # NoLoad =>
        /\ loadComplete.packId \in DOMAIN packs
        /\ loadComplete.packId \in Range(packOrder)
        /\ loadComplete.info = loadComplete.packId

(***************************************************************************)
(* Further claims about variant resolution                                 *)
(***************************************************************************)

\* the definition has neither the block's computed variant key nor ""
NoExactNoEmpty ==
    /\ Resolved /\ RegularBlock /\ ~definition.isNull /\ definition.hasVariants
    /\ \A i \in 1..Len(definition.variants) :
            /\ ~IsComputedKey(definition.variants[i].key)
            /\ definition.variants[i].key # <<>>

\* a pair of the key names a block property and gives it another value
Conflicts(key) ==
    \E part \in Range(key) : \E p \in Range(block.properties) :
        part[1] = p[1] /\ partValue(part) # p[2]

\* the variant keys none of whose pairs conflicts with the block
Candidates ==
    {i \in 1..Len(definition.variants) : ~Conflicts(definition.variants[i].key)}

\* the number of pairs of the key that equal a block property
Agreeing(key) ==
    Cardinality({p \in Range(block.properties) :
                    \E part \in Range(key) :
                        part[1] = p[1] /\ partValue(part) = p[2]})

\* the candidates with the highest number of agreeing pairs
BestCandidates ==
    {i \in Candidates :
        \A j \in Candidates :
            Agreeing(definition.variants[j].key)
                <= Agreeing(definition.variants[i].key)}

\* the model reference the variant entry i stands for
VariantModel(i) ==
    IF definition.variants[i].isArray
    THEN definition.variants[i].value[1].model
    ELSE definition.variants[i].value.model

\* C19: without an exact-key match and without the key "", variant
\* resolution picks, among the keys none of whose pairs conflicts with a
\* block property, the key with the most pairs equal to block properties, the
\* first such key in enumeration order on a tie; a property the key does not
\* mention never disqualifies it.
C19_BestPartialMatch ==
    (NoExactNoEmpty /\ Candidates # {}) =>
        /\ Len(models) >= 1
        /\ \E i \in BestCandidates :
              /\ \A j \in BestCandidates : i <= j
              /\ models[1].model = VariantModel(i)

\* two keys tie on one agreeing pair, the block has a property that the
\* chosen key does not mention, and the first of the two keys is the result
C19_Witness ==
    /\ NoExactNoEmpty
    /\ Cardinality(BestCandidates) >= 2
    /\ \E i \in BestCandidates :
          /\ i > 1
          /\ Agreeing(definition.variants[i].key) = 1
          /\ \A j \in BestCandidates : i <= j
          /\ \E p \in Range(block.properties) :
                \A part \in Range(definition.variants[i].key) : part[1] # p[1]
          /\ models[1].model = VariantModel(i)

\* the model holder the variant entry i stands for: element 0 of a list
HolderOf(i) ==
    IF definition.variants[i].isArray
    THEN definition.variants[i].value[1]
    ELSE definition.variants[i].value

\* exact match, "" key, best partial match and single-property lookup fail
AllLookupsFail ==
    /\ NoExactNoEmpty
    /\ Candidates = {}
    /\ \A p \in Range(block.properties) :
          \A i \in 1..Len(definition.variants) :
              definition.variants[i].key # <<p>>

\* the references the multipart section contributes
MultipartCount ==
    IF definition.hasMultipart
    THEN Len(multipartModels(block.properties, definition.multipart, 1))
    ELSE 0

\* C20: when exact match, "" key, best partial match and single-property
\* lookup all fail, the first variant key in enumeration order is used; so
\* for every definition whose variants map has at least one key, and every
\* block, the variants section contributes exactly one model reference,
\* taken from element 0 when the chosen variant value is a list.
C20_FirstKeyLastResort ==
    (/\ Resolved /\ RegularBlock /\ ~definition.isNull /\ definition.hasVariants
     /\ Len(definition.variants) >= 1
     /\ ~(definition.hasMultipart /\ ~definition.multipartIterable))
    => /\ Len(models) = 1 + MultipartCount
       /\ \E i \in 1..Len(definition.variants) :
             /\ models[1].model = HolderOf(i).model
             /\ models[1].x = HolderOf(i).x
             /\ models[1].y = HolderOf(i).y
             /\ models[1].uvlock = HolderOf(i).uvlock
       /\ AllLookupsFail => models[1].model = HolderOf(1).model

\* facing=east against the weighted entries facing=north and facing=south:
\* every lookup fails and element 0 of the first entry is the one reference
C20_Witness ==
    /\ AllLookupsFail /\ VariantsOnly
    /\ block.properties = <<<<"facing", "east">>>>
    /\ Len(definition.variants) = 2
    /\ definition.variants[1].key = <<<<"facing", "north">>>>
    /\ definition.variants[2].key = <<<<"facing", "south">>>>
    /\ definition.variants[1].isArray
    /\ Len(models) = 1
    /\ models[1].model = definition.variants[1].value[1].model

(***************************************************************************)
(* Claims about loadAndMergeModel, hop by hop                              *)
(***************************************************************************)

LoadedFile(i) == modelFile(mergeFiles, loadedParents[i])

\* the parent documents that were loaded and parsed, nearest first
LoadedDocs ==
    SelectSeq([i \in 1..Len(loadedParents) |-> LoadedFile(i)],
              LAMBDA file : file.status = "ok")

\* the child followed by the parents that were loaded
MergeChain ==
    <<mergeModel>> \o [i \in 1..Len(LoadedDocs) |-> LoadedDocs[i].doc]

\* the value of key k in the nearest model of the chain that defines it
ChainTexture(k) ==
    LET defining == {i \in 1..Len(MergeChain) :
                        /\ MergeChain[i].hasTextures
                        /\ MergeChain[i].textures[k] # Absent}
    IN  IF defining = {} THEN Absent
        ELSE MergeChain[CHOOSE i \in defining : \A j \in defining : i <= j]
                .textures[k]

\* the elements of the nearest model of the chain that declares elements
ChainElements ==
    LET declaring == {i \in 1..Len(MergeChain) : MergeChain[i].hasElements}
    IN  IF declaring = {} THEN <<>>
        ELSE MergeChain[CHOOSE i \in declaring : \A j \in declaring : i <= j]
                .elements

\* the load that failed, if any, is the last one
StopsAtFailure ==
    \A i \in 1..(Len(loadedParents) - 1) : LoadedFile(i).status = "ok"

MergeReturned ==
    /\ ~mergeResult.hasParent
    /\ mergeResult.parent = Absent
    /\ \A k \in TextureKeys : mergeResult.textures[k] = ChainTexture(k)
    /\ mergeResult.elements = ChainElements

C21_Bounded ==
    /\ Len(loadedParents) <= 5
    /\ StopsAtFailure
    /\ (lpc = "done" /\ mergeModel.parent.kind = "lit") => MergeReturned

\* C21: loadAndMergeModel loads at most 5 parent documents and always
\* terminates, also on a cyclic parent chain; when a parent file is missing
\* or unparsable it stops and returns the merge of what was loaded so far,
\* without a parent key and without throwing.
C21_MergeTerminates == [](C21_Bounded) /\ <>(lpc = "done")

\* two parents were merged, the third is missing: the call returned the
\* merge of the child and the two parents, without a parent key
C21_Witness ==
    /\ lpc = "done"
    /\ Len(loadedParents) = 3
    /\ LoadedFile(3).status = "missing"
    /\ mergeModel.parent.kind = "lit"
    /\ mergeModel.textures["side"] = Absent
    /\ mergeResult.textures["side"] = LoadedFile(1).doc.textures["side"]
    /\ mergeResult.textures["side"] # Absent
    /\ mergeResult.textures["top"] = mergeModel.textures["top"]
    /\ ~mergeResult.hasParent

(***************************************************************************)
(* Claims about the synthetic liquid cuboid                                *)
(***************************************************************************)

\* the liquid blocks with the level property absent or one of 0..15
LeveledLiquids ==
    {Block(name, properties) :
        name \in LiquidNames,
        properties \in {<<>>} \cup
            {<<<<"level", LevelTokens[i]>>>> : i \in 1..Len(LevelTokens)}}

\* the level the block's property spells, 0 when it has none
LevelProperty(blk) ==
    IF blk.properties = <<>> THEN 0
    ELSE (CHOOSE i \in 1..Len(LevelTokens) :
            LevelTokens[i] = blk.properties[1][2]) - 1

\* the height the claim gives for a liquid at level n
ClaimedHeight(blk) ==
    LET n == LevelProperty(blk) IN
    IF n = 0 THEN (IF blk.name \in {"water", "flowing_water"} THEN 14 ELSE 16)
    ELSE 16 - 2 * n

\* getModel answered the request for the model the resolver names for blk
\* with the synthetic cuboid
SyntheticFor(blk) ==
    /\ mpc = "done"
    /\ createLiquidModelData(blk)[1].model = stripNamespace(modelArg).name
    /\ Len(modelJson.elements) = 1
    /\ modelJson.elements[1].from = <<0, 0, 0>>
    /\ \A d \in Directions : modelJson.elements[1].faces[d].kind = "ref"

\* C22 as stated: the synthetic cuboid spans [0,0,0]-[16,h,16] with h = 14
\* for water at level 0, 16 for lava at level 0 and 16 - 2n for n >= 1, and
\* 0 < h <= 16 for every level the resolver can produce from a block's
\* level property.
C22_Original ==
    \A blk \in LeveledLiquids :
        SyntheticFor(blk) =>
            /\ modelJson.elements[1].to = <<16, ClaimedHeight(blk), 16>>
            /\ 0 < modelJson.elements[1].to[2]
            /\ modelJson.elements[1].to[2] <= 16

(***************************************************************************)
(* Claims about the packing tree                                           *)
(***************************************************************************)

\* the textures one strategy packs, in its order
StrategyInput(s) ==
    sortTexturesForPacking([i \in 1..Len(atlasTextures) |->
                              textureInfo(atlasTextures[i])])[Strategies[s]]

\* the tree after the first k textures of the input were attempted
RECURSIVE TreeAfter(_, _)
TreeAfter(input, k) ==
    IF k = 0
    THEN [m \in {RootNode} |->
            [x |-> 0, y |-> 0, width |-> atlasSize, height |-> atlasSize,
             used |-> FALSE]]
    ELSE LET tree == TreeAfter(input, k - 1)
             node == findNode(tree, RootNode, input[k].width + padding,
                              input[k].height + padding)
         IN  IF node = NoNode THEN tree
             ELSE splitNode(tree, node, input[k].width + padding,
                            input[k].height + padding)

\* depth-first order of the routes, the right child before the down child
Precedes(a, b) ==
    \/ Len(a) < Len(b) /\ SubSeq(b, 1, Len(a)) = a
    \/ \E i \in 1..Len(a) :
          /\ i <= Len(b)
          /\ SubSeq(a, 1, i - 1) = SubSeq(b, 1, i - 1)
          /\ a[i] = "right" /\ b[i] = "down"

\* the unused nodes a w x h request fits
FittingNodes(tree, w, h) ==
    {m \in DOMAIN tree :
        ~tree[m].used /\ w <= tree[m].width /\ h <= tree[m].height}

\* the packed entry of a path, as a set of at most one element
PlacedAs(packed, path) ==
    {packed[i] : i \in {j \in 1..Len(packed) : packed[j].path = path}}

\* texture k of the input is placed in the first fitting node for a w x h
\* request, and dropped when there is none
PlacedFirstFit(input, packed, k, w, h) ==
    LET fitting == FittingNodes(TreeAfter(input, k - 1), w, h)
        tree == TreeAfter(input, k - 1)
    IN  IF fitting = {} THEN PlacedAs(packed, input[k].path) = {}
        ELSE \E m \in fitting :
                /\ \A n \in fitting \ {m} : Precedes(m, n)
                /\ \E entry \in PlacedAs(packed, input[k].path) :
                      entry.x = tree[m].x /\ entry.y = tree[m].y

\* the uvMap holds exactly the placed paths of the strategy that was drawn
UvMapOfPlaced ==
    \E s \in 1..Len(Strategies) :
        /\ Len(atlasCanvas) = Len(packingResults[s].packedTextures)
        /\ DOMAIN uvMap =
              {packingResults[s].packedTextures[i].path :
                  i \in 1..Len(packingResults[s].packedTextures)}

\* C23 as stated: a (w,h) texture is placed in the first unused node, depth
\* first with the right child before the down child, with w <= node.w and
\* h <= node.h, and dropped only when no unused node satisfies that; a drop
\* does not abort packing and the uvMap holds exactly the placed paths.
C23_Original ==
    apc = "done" =>
        /\ \A s \in 1..Len(Strategies) : \A k \in 1..Len(StrategyInput(s)) :
              PlacedFirstFit(StrategyInput(s), packingResults[s].packedTextures,
                             k, StrategyInput(s)[k].width,
                             StrategyInput(s)[k].height)
        /\ UvMapOfPlaced

\* C23 (amended): the same with the node required to hold the texture and
\* its padding: w + padding <= node.w and h + padding <= node.h.
C23_FirstFit ==
    apc = "done" =>
        /\ \A s \in 1..Len(Strategies) : \A k \in 1..Len(StrategyInput(s)) :
              PlacedFirstFit(StrategyInput(s), packingResults[s].packedTextures,
                             k, StrategyInput(s)[k].width + padding,
                             StrategyInput(s)[k].height + padding)
        /\ UvMapOfPlaced

\* under one strategy a texture is dropped and the next one is still placed,
\* in a node beside the first, although a node below would hold it as well
C23_Witness ==
    /\ apc = "done"
    /\ \E s \in 1..Len(Strategies) :
          LET input == StrategyInput(s)
              packed == packingResults[s].packedTextures
          IN  /\ Len(input) = 3 /\ Len(packed) = 2
              /\ PlacedAs(packed, input[2].path) = {}
              /\ packed[2].path = input[3].path
              /\ packed[2].x > 0 /\ packed[2].y = 0
              /\ Cardinality(FittingNodes(TreeAfter(input, 2),
                                          input[3].width + padding,
                                          input[3].height + padding)) = 2

(***************************************************************************)
(* Claims about the merged geometry                                        *)
(***************************************************************************)

\* the meshes of the node createBlockMeshNoWater returned
MainMeshes ==
    IF MainMesh.type = "Group" THEN MainMesh.children ELSE <<MainMesh>>

\* the material keys of the faces that were emitted
EmittedKeys ==
    LET blockData == blockDataOf(builderBlock, builderTransform.block) IN
    {getMaterialKey(faceTexture(builderModel[p[1]][p[2]], blockData),
                    builderModel[p[1]][p[2]].direction, blockData) :
        p \in EmittedFaces}

\* each material key has exactly one mesh
OneMeshPerKey ==
    /\ {MainMeshes[i].materialKey : i \in 1..Len(MainMeshes)} = EmittedKeys
    /\ \A i, j \in 1..Len(MainMeshes) :
           MainMeshes[i].materialKey = MainMeshes[j].materialKey => i = j

\* no two vertices of a buffer share quantized position, normal and UV
NoDuplicateVertex(object) ==
    \A a, b \in 1..Len(object.buffer) :
        object.buffer[a] = object.buffer[b] => a = b

\* every index refers to an existing vertex
IndexInRange(object) ==
    \A k \in 1..Len(object.index) :
        object.index[k] >= 0 /\ object.index[k] < Len(object.buffer)

\* C24 as stated: in the node returned by createBlockMeshNoWater each
\* distinct material key has exactly one mesh with one indexed buffer, no two
\* vertices of a buffer share quantized position, normal and UV, also when
\* the faces of the key come from several elements, and every index refers
\* to an existing vertex.
C24_Original ==
    (BuilderDone /\ EmittedFaces # {}) =>
        /\ OneMeshPerKey
        /\ \A i \in 1..Len(MainMeshes) :
               /\ NoDuplicateVertex(MainMeshes[i])
               /\ IndexInRange(MainMeshes[i])

(***************************************************************************)
(* C25: blockstate rotation                                                *)
(***************************************************************************)

\* the vertex positions of an object: those of its meshes, in order
RECURSIVE positionsOf(_)
positionsOf(object) ==
    IF object.type = "Mesh"
    THEN <<[i \in 1..Len(object.buffer) |-> object.buffer[i].position]>>
    ELSE IF object.children = <<>> THEN <<>>
    ELSE positionsOf(object.children[1])
         \o positionsOf([object EXCEPT !.children = Tail(@)])

\* the parts getBlockMesh has built so far
BuiltParts ==
    {i \in 1..Len(objectPromises) : objectPromises[i] \notin {Pending, Null}}

\* createBlockMesh of an entry's model when the entry's x and y are passed
\* as options
WithRotationOptions(i) ==
    createBlockMesh(PartModelFiles[staticEntries[i].model],
                    Transform(NoBlock, staticEntries[i].x, staticEntries[i].y,
                              staticEntries[i].uvlock),
                    partsBlock)

PositionsIgnoreRotation ==
    \A i \in BuiltParts :
        positionsOf(objectPromises[i].object)
            = positionsOf(WithRotationOptions(i))

\* the rotations an entry asks for: about y by -y, then about x by -x
EntryRotations(modelData) ==
    (IF modelData.y # 0 THEN << <<"y", 0 - modelData.y>> >> ELSE <<>>)
    \o (IF modelData.x # 0 THEN << <<"x", 0 - modelData.x>> >> ELSE <<>>)

RotatedOnce ==
    \A i \in BuiltParts :
        objectPromises[i].rotations = EntryRotations(staticEntries[i])

\* the indices of the entries whose build did not fail, ascending
RECURSIVE Ascending(_)
Ascending(indices) ==
    IF indices = {} THEN <<>>
    ELSE LET least == CHOOSE i \in indices : \A j \in indices : i <= j
         IN  <<least>> \o Ascending(indices \ {least})

InResolverOrder ==
    partsPc = "done" =>
        LET kept == Ascending(BuiltParts)
        IN  rootChildren = [k \in 1..Len(kept) |-> objectPromises[kept[k]]]

\* C25: the vertex positions createBlockMesh produces are the same whether or
\* not the entry's x and y are passed to it; each part built by getBlockMesh
\* carries exactly its entry's rotation about y followed by its rotation
\* about x; and the root's children are the parts that were built, in the
\* order of the resolver's list, whatever the order the builds completed in
C25_RotationAndOrder ==
    /\ PositionsIgnoreRotation
    /\ RotatedOnce
    /\ InResolverOrder

\* two parts completed in the reverse of the resolver's order, the first
\* turned about both axes, and passing y to createBlockMesh would have
\* changed its UVs
C25_Witness ==
    /\ partsPc = "done"
    /\ settled = <<2, 1>>
    /\ Len(rootChildren) = 2
    /\ rootChildren[1] # rootChildren[2]
    /\ staticEntries[1].x # 0
    /\ staticEntries[1].y # 0
    /\ WithRotationOptions(1) # rootChildren[1].object
    /\ rootChildren[1].rotations = <<<<"y", -270>>, <<"x", -90>>>>

(***************************************************************************)
(* C26: the active provider of a conflict                                  *)
(***************************************************************************)

\* the conflicts of the packs as they are
Conflicts26 == getAssetConflicts(packs, packKeys)

\* C26: the active provider of every reported conflict is the pack
\* getAssetSource names, and its file is what getResourceString reads
C26_Original ==
    \A i \in 1..Len(Conflicts26) :
        /\ Conflicts26[i].activeProvider = getAssetSource(packs, packOrder)
        /\ PackContent(Conflicts26[i].activeProvider) = currentContent

(***************************************************************************)
(* C27: packOrder and the keys of packs                                    *)
(***************************************************************************)

\* C27: packOrder holds every loaded pack id exactly once and no other id
C27_Original ==
    /\ \A i, j \in 1..Len(packOrder) : i # j => packOrder[i] # packOrder[j]
    /\ Range(packOrder) = DOMAIN packs

(***************************************************************************)
(* C28: the order of a rebuild                                             *)
(***************************************************************************)

RebuildOrder == <<"packsChanged", "atlasRebuilding", "atlasRebuild", "meshRebuild">>

\* the events of a call are a beginning of the order, and the mesh-rebuild
\* callback is among them only when the atlas rebuild resolved
OrderedEvents(call) ==
    /\ Len(call.events) <= Len(RebuildOrder)
    /\ call.events = SubSeq(RebuildOrder, 1, Len(call.events))
    /\ "meshRebuild" \in Range(call.events) => call.atlas = "resolved"
    /\ call.atlas = "rejected" => "meshRebuild" \notin Range(call.events)

\* C28 as stated: the events of every triggerRebuild come in the order
\* packsChanged, atlasRebuilding, atlas-rebuild callback, mesh-rebuild
\* callback, the last only after the atlas rebuild resolved; when the atlas
\* rebuild rejects, the operation's promise rejects
C28_Original ==
    \A slot \in RebuildSlots :
        /\ OrderedEvents(rebuildCalls[slot])
        /\ rebuildCalls[slot].atlas = "rejected"
               => rebuildCalls[slot].result = "rejected"

\* C28, amended: as stated, except that loadState catches the rejection and
\* resolves with false
C28_RebuildOrder ==
    \A slot \in RebuildSlots :
        /\ OrderedEvents(rebuildCalls[slot])
        /\ rebuildCalls[slot].atlas = "rejected"
               => rebuildCalls[slot].result
                      = IF rebuildCalls[slot].operation = "loadState"
                        THEN "false" ELSE "rejected"

\* one operation whose rebuild resolved and called the mesh-rebuild callback
\* and one whose atlas rebuild rejected
C28_Witness ==
    /\ rebuildCalls[1].events = RebuildOrder
    /\ rebuildCalls[1].result = "resolved"
    /\ rebuildCalls[2].atlas = "rejected"
    /\ rebuildCalls[2].operation = "importConfig"
    /\ rebuildCalls[2].result = "rejected"
    /\ rebuildCalls[2].events = SubSeq(RebuildOrder, 1, 3)

(***************************************************************************)
(* C29: useCache                                                           *)
(***************************************************************************)

\* what the call that resolved last was handed, given how it was called
ReturnedFromCache ==
    /\ lastReturn.hit =>
           /\ lastReturn.arguments.useCache
           /\ lastReturn.mesh = clone(lastReturn.entry)
    /\ lastReturn # NoReturn =>
           \A key \in CacheKeys : storedObjects[key] # lastReturn.object
    /\ ~lastReturn.arguments.useCache =>
           /\ ~lastReturn.hit
           /\ ~lastReturn.cacheWritten
           /\ lastReturn.mesh =
                  computeBlockMesh(lastReturn.arguments.blockString,
                                   lastReturn.arguments.biome,
                                   lastReturn.arguments.nbtData)

\* a call with useCache starts building only when its key has no entry, and
\* a call without useCache leaves the cache as it is
BuildsOnMissOnly ==
    /\ \A slot \in Slots :
           (/\ callSlots[slot].pc = "idle"
            /\ callSlots'[slot].pc = "building"
            /\ callSlots'[slot].useCache)
               => cachedMeshes[cacheKey(callSlots'[slot].blockString,
                                        callSlots'[slot].biome)]
                      = NoCachedMesh
    /\ \A slot \in Slots :
           (callSlots[slot].pc = "building" /\ ~callSlots[slot].useCache
            /\ callSlots'[slot].pc = "idle")
               => cachedMeshes' = cachedMeshes /\ storedObjects' = storedObjects

\* C29: with useCache a call is served from the entry of its key whenever
\* there is one, with a clone of the stored mesh whatever its nbtData; no
\* caller is handed the object the cache holds; without useCache the mesh
\* is built anew and the cache is left as it is
C29_UseCache == [](ReturnedFromCache) /\ [][BuildsOnMissOnly]_vars

\* a call with a sign text was served with the clone of an entry stored
\* without that text, after a call without useCache for the same key had
\* resolved with the text
C29_Witness ==
    /\ lastReturn.hit
    /\ lastReturn.arguments.nbtData = "Hello"
    /\ lastReturn.mesh
           # clone(computeBlockMesh(lastReturn.arguments.blockString,
                                   lastReturn.arguments.biome, "Hello"))
    /\ returnedMeshes[[lastReturn.arguments EXCEPT !.useCache = FALSE]] # {}

(***************************************************************************)
(* C30: the padded rectangles                                              *)
(***************************************************************************)

\* the rectangle of a placed texture with its padding lies in the canvas
InCanvas(placed) ==
    /\ placed.x >= 0 /\ placed.y >= 0
    /\ placed.x + placed.width + padding <= atlasSize
    /\ placed.y + placed.height + padding <= atlasSize

\* the padded rectangles of two placed textures share no pixel
Apart(a, b) ==
    \/ a.x + a.width + padding <= b.x
    \/ b.x + b.width + padding <= a.x
    \/ a.y + a.height + padding <= b.y
    \/ b.y + b.height + padding <= a.y

\* no node of the tree has a negative side, at any point of the loop
NodesNonNegative(input) ==
    \A k \in 0..Len(input) :
        \A m \in DOMAIN TreeAfter(input, k) :
            TreeAfter(input, k)[m].width >= 0
                /\ TreeAfter(input, k)[m].height >= 0

\* C30: under each strategy every placed texture's rectangle, widened by the
\* padding to the right and below, lies in the atlasSize x atlasSize canvas,
\* the widened rectangles of two placed textures are disjoint, and no node
\* splitNode creates has a negative width or height
C30_PaddedRects ==
    apc = "done" =>
        \A s \in 1..Len(Strategies) :
            LET packed == packingResults[s].packedTextures IN
            /\ \A i \in 1..Len(packed) : InCanvas(packed[i])
            /\ \A i, j \in 1..Len(packed) :
                  i # j => Apart(packed[i], packed[j])
            /\ NodesNonNegative(StrategyInput(s))

\* with padding, three textures are placed, one of them ending at the right
\* edge of the canvas with its padding, and a split left a node of width 0
C30_Witness ==
    /\ apc = "done" /\ padding = 1
    /\ \E s \in 1..Len(Strategies) :
          LET packed == packingResults[s].packedTextures
              input == StrategyInput(s)
          IN  /\ Len(packed) = 3
              /\ \E i \in 1..3 :
                    packed[i].x + packed[i].width + padding = atlasSize
              /\ \E m \in DOMAIN TreeAfter(input, Len(input)) :
                    TreeAfter(input, Len(input))[m].width = 0

====
